---- MODULE Spec2Model ----
(***************************************************************************)
(* A model of the analytics and simulation engine of the dashboard:        *)
(*   - Wallet.simulate_portfolio and its contribution schedule             *)
(*     (src/simulation_lib.py),                                            *)
(*   - the indicator functions over a price table (src/indicators.py).     *)
(*                                                                         *)
(* Numbers.  Python computes shares and values in binary floating point.   *)
(* A float is modelled as a pair <<m, e>> standing for m * 2^e, kept in    *)
(* canonical form (m odd, or <<0, 0>>), and every arithmetic operation     *)
(* rounds its exact result to MantBits significant bits, ties to even, as  *)
(* IEEE 754 does with 53 bits.  Exponents are unbounded (no overflow, no   *)
(* subnormals).  The inputs of the model are small integers, all exactly   *)
(* representable.                                                          *)
(*                                                                         *)
(* Dates.  A date is a triple <<year, month, day>> of the proleptic        *)
(* Gregorian calendar, compared lexicographically.                         *)
(***************************************************************************)
EXTENDS Integers, Sequences, FiniteSets, TLC

(***************************************************************************)
(* Bounds of the model.                                                    *)
(***************************************************************************)
\* significand width of the modelled floating point (53 in the program)
MantBits == 5
\* most rows in a price series handed to simulate_portfolio
MaxRows == 3

(***************************************************************************)
(* Floating point.                                                         *)
(***************************************************************************)
Pow2(n) == 2 ^ n

\* canonical form of m * 2^e
RECURSIVE Norm(_, _)
Norm(m, e) ==
    IF m = 0 THEN <<0, 0>>
    ELSE IF m % 2 = 0 THEN Norm(m \div 2, e + 1)
    ELSE <<m, e>>

\* (a / d) * 2^e for a > 0, d > 0, rounded to MantBits bits, ties to even
RECURSIVE RoundPos(_, _, _)
RoundPos(a, d, e) ==
    IF a >= d * Pow2(MantBits) THEN RoundPos(a, 2 * d, e + 1)
    ELSE IF a < d * Pow2(MantBits - 1) THEN RoundPos(2 * a, d, e - 1)
    ELSE LET q == a \div d
             r == a % d
             up == (2 * r > d) \/ (2 * r = d /\ q % 2 = 1)
         IN  Norm(IF up THEN q + 1 ELSE q, e)

\* (n / d) * 2^e for d > 0, rounded; a quotient that is an integer of at most
\* MantBits bits is exact
Round(n, d, e) ==
    IF n = 0 THEN <<0, 0>>
    ELSE IF n % d = 0 /\ n \div d < Pow2(MantBits) /\ -(n \div d) < Pow2(MantBits)
         THEN Norm(n \div d, e)
    ELSE IF n > 0 THEN RoundPos(n, d, e)
    ELSE LET p == RoundPos(-n, d, e) IN <<-p[1], p[2]>>

Min2(a, b) == IF a <= b THEN a ELSE b

\* float(n) for an integer n
FromInt(n) == Round(n, 1, 0)

\* x + y
FAdd(x, y) ==
    LET e == Min2(x[2], y[2])
    IN  Round(x[1] * Pow2(x[2] - e) + y[1] * Pow2(y[2] - e), 1, e)

\* x * y
FMul(x, y) == Round(x[1] * y[1], 1, x[2] + y[2])

\* x / y for y # 0
FDiv(x, y) ==
    IF y[1] > 0 THEN Round(x[1], y[1], x[2] - y[2])
    ELSE Round(-x[1], -y[1], x[2] - y[2])

\* x - y
FSub(x, y) == FAdd(x, <<-y[1], y[2]>>)

\* the integer part of the square root of n >= 0
RECURSIVE ISqrt(_)
ISqrt(n) ==
    IF n < 2 THEN n
    ELSE LET r == 2 * ISqrt(n \div 4)
         IN  IF (r + 1) * (r + 1) <= n THEN r + 1 ELSE r

\* sqrt(x) for x >= 0: the root of the significand scaled to an even exponent
\* and to more than MantBits + 1 bits, with half a unit standing for what an
\* inexact root leaves over
FSqrt(x) ==
    IF x[1] = 0 THEN <<0, 0>>
    ELSE LET t == 2 * (MantBits + 1) + (x[2] % 2)
             n == x[1] * Pow2(t)
             r == ISqrt(n)
         IN  Round(2 * r + (IF r * r = n THEN 0 ELSE 1), 2, (x[2] - t) \div 2)

\* x <= y
FLe(x, y) ==
    LET e == Min2(x[2], y[2])
    IN  x[1] * Pow2(x[2] - e) <= y[1] * Pow2(y[2] - e)

\* x > 0
FPos(x) == x[1] > 0

(***************************************************************************)
(* Calendar.                                                               *)
(***************************************************************************)
IsLeap(y) == (y % 4 = 0 /\ y % 100 # 0) \/ y % 400 = 0

DaysInMonth(y, m) ==
    IF m = 2 THEN (IF IsLeap(y) THEN 29 ELSE 28)
    ELSE IF m \in {4, 6, 9, 11} THEN 30 ELSE 31

\* a < b, a <= b, a >= b on dates
DateLt(a, b) ==
    \/ a[1] < b[1]
    \/ a[1] = b[1] /\ a[2] < b[2]
    \/ a[1] = b[1] /\ a[2] = b[2] /\ a[3] < b[3]

DateLe(a, b) == a = b \/ DateLt(a, b)

DateGe(a, b) == DateLe(b, a)

\* days of the year dt[1] before the month m
RECURSIVE DaysBeforeMonth(_, _)
DaysBeforeMonth(y, m) ==
    IF m = 1 THEN 0 ELSE DaysBeforeMonth(y, m - 1) + DaysInMonth(y, m - 1)

\* date.toordinal(): days since 0001-01-01, that day being 1
ToOrdinal(dt) ==
    LET y == dt[1] - 1
    IN  y * 365 + (y \div 4) - (y \div 100) + (y \div 400)
        + DaysBeforeMonth(dt[1], dt[2]) + dt[3]

\* date.fromordinal(n)
FromOrdinal(n) ==
    LET z == n - 1 + 306
        era == z \div 146097
        doe == z - era * 146097
        yoe == (doe - (doe \div 1460) + (doe \div 36524) - (doe \div 146096)) \div 365
        doy == doe - (365 * yoe + (yoe \div 4) - (yoe \div 100))
        mp == (5 * doy + 2) \div 153
        d == doy - ((153 * mp + 2) \div 5) + 1
        m == IF mp < 10 THEN mp + 3 ELSE mp - 9
        y == yoe + era * 400 + (IF m <= 2 THEN 1 ELSE 0)
    IN  <<y, m, d>>

\* dt + timedelta(days = n)
AddDays(dt, n) == FromOrdinal(ToOrdinal(dt) + n)

\* dt + relativedelta(months = n): the month moves, the day is kept unless the
\* target month is shorter, and then it is the last day of that month
AddMonths(dt, n) ==
    LET k == (dt[1] * 12 + (dt[2] - 1)) + n
        y == k \div 12
        m == (k % 12) + 1
    IN  <<y, m, Min2(dt[3], DaysInMonth(y, m))>>

\* dt + relativedelta(years = n)
AddYears(dt, n) ==
    <<dt[1] + n, dt[2], Min2(dt[3], DaysInMonth(dt[1] + n, dt[2]))>>

(***************************************************************************)
(* Wallet.simulate_portfolio (src/simulation_lib.py).                      *)
(*                                                                         *)
(* A price series is a sequence of rows [Date, Price] with distinct dates  *)
(* and integer-valued prices; the caller may hand it over in any order.    *)
(***************************************************************************)
VARIABLES
    wallet,                  \* the Wallet object: its three fields
    price_df,                \* the caller's table, argument of the call
    df,                      \* the sorted copy the call works on
    pc,                      \* "idle", "ready", "loop", "done" or "raised"
    idx,                     \* position of the loop in df
    start_date,
    next_contribution_date,
    current_shares,
    total_invested,
    portfolio_values,
    invested_capital_values,
    result,                  \* the table returned by the last completed call
    purchases                \* log of the purchases the call has executed

VARIABLES
    table,                   \* the price table handed to an indicator function
    ma_periods,              \* the ma_periods argument of the last call
    returned,                \* the table the last add_... call returned
    ipc,                     \* "start", "returned" or "raised"
    given,                   \* the table as it was when the last call was made
    fn,                      \* the function called last, "" before any call
    ncalls,                  \* how many calls were made on the table
    rsi_df                   \* the frame the last calculate_rsi call returned

ivars == <<table, ma_periods, returned, ipc, given, fn, ncalls, rsi_df>>

VARIABLES
    model,                   \* the prediction model the caller holds
    trained_on,              \* the dates and prices of its last completed train
    pcall                    \* the last call on the backend or the model

pvars == <<model, trained_on, pcall>>

VARIABLES
    market,                  \* per symbol, what yf.Ticker(symbol).history has
    request,                 \* the arguments of the last get_price_data call
    price_data               \* what that call returned, or that it raised

fvars == <<market, request, price_data>>

VARIABLES
    sidebar,                 \* the values of the inputs of the simulation page
    today,                   \* date.today() of the run of the script
    ppc,                     \* "form", "error", "raised" or "done"
    page_error,              \* the error the page shows, "" when none
    steps,                   \* the computations the button handler completed
    df_all,                  \* the fetched rows, Date as a timestamp
    df_train,
    df_test,
    full_future_dates,
    scenarios                \* the tables handed to simulate_portfolio

gvars == <<sidebar, today, ppc, page_error, steps, df_all, df_train, df_test,
           full_future_dates, scenarios>>

wvars == <<wallet, price_df, df, pc, idx, start_date, next_contribution_date,
           current_shares, total_invested, portfolio_values,
           invested_capital_values, result, purchases>>

\* the inputs the model draws from
DatePool == { <<2023, 1, 31>>, <<2023, 2, 28>>, <<2023, 3, 29>>, <<2023, 3, 30>>,
              <<2123, 3, 1>> }
PricePool == {0, 5, 13}
InitialCapitals == {3, 15}
ContributionAmounts == {-1, 5}
Frequencies == {"None", "Monthly", "Quarterly", "Annually"}

NoDate == <<0, 0, 0>>
Zero == <<0, 0>>

\* Wallet.__init__
NewWallet(ic, ca, freq) ==
    [initial_capital |-> ic, contribution_amount |-> ca, contribution_freq |-> freq]

Wallets ==
    { NewWallet(ic, ca, f) : ic \in InitialCapitals, ca \in ContributionAmounts,
                             f \in Frequencies }

\* the rows of the dates S with the prices pr, in ascending date order
RECURSIVE Ascending(_, _)
Ascending(S, pr) ==
    IF S = {} THEN <<>>
    ELSE LET d == CHOOSE x \in S : \A y \in S : DateLe(x, y)
         IN  <<[Date |-> d, Price |-> pr[d]]>> \o Ascending(S \ {d}, pr)

Reverse(s) == [i \in 1..Len(s) |-> s[Len(s) + 1 - i]]

\* the series a caller can pass: up to MaxRows rows, ascending or descending
SeriesOf(S, pr, rev) == IF rev THEN Reverse(Ascending(S, pr)) ELSE Ascending(S, pr)

\* df.sort_values('Date').reset_index(drop=True): a new table, rows by date
RECURSIVE InsertRow(_, _)
InsertRow(s, row) ==
    IF s = <<>> THEN <<row>>
    ELSE IF DateLt(row.Date, s[1].Date) THEN <<row>> \o s
    ELSE <<s[1]>> \o InsertRow(Tail(s), row)

RECURSIVE SortValues(_)
SortValues(s) ==
    IF s = <<>> THEN <<>>
    ELSE InsertRow(SortValues(SubSeq(s, 1, Len(s) - 1)), s[Len(s)])

\* a call that sorts the caller's table itself
SortInPlace(t) == [caller |-> SortValues(t), work |-> SortValues(t)]

\* lines 25-27: the call copies the caller's table and sorts the copy
CopyAndSort(t) == [caller |-> t, work |-> SortValues(t)]

\* Wallet._get_next_contribution_date
GetNextContributionDate(w, start, last_date) ==
    IF w.contribution_freq = "Monthly" THEN AddMonths(last_date, 1)
    ELSE IF w.contribution_freq = "Quarterly" THEN AddMonths(last_date, 3)
    ELSE IF w.contribution_freq = "Annually" THEN AddYears(last_date, 1)
    ELSE AddDays(last_date, 36500)

\* the initial investment made at the price of the last row
LoopStartLastPrice(w, d) ==
    LET start == d[1].Date
        initial_price == d[Len(d)].Price
        buy == initial_price > 0
    IN  [start_date |-> start,
         next_contribution_date |-> GetNextContributionDate(w, start, start),
         current_shares |->
             IF buy THEN FAdd(Zero, FDiv(FromInt(w.initial_capital), FromInt(initial_price)))
             ELSE Zero,
         total_invested |->
             IF buy THEN FAdd(Zero, FromInt(w.initial_capital)) ELSE Zero,
         bought |->
             IF buy THEN <<[kind |-> "initial", row |-> 1,
                            capital |-> w.initial_capital, price |-> initial_price]>>
             ELSE <<>>]

\* a schedule whose first contribution is due on the start date
LoopStartDueAtOnce(w, d) ==
    LET start == d[1].Date
        initial_price == d[1].Price
        buy == initial_price > 0
    IN  [start_date |-> start,
         next_contribution_date |-> start,
         current_shares |->
             IF buy THEN FAdd(Zero, FDiv(FromInt(w.initial_capital), FromInt(initial_price)))
             ELSE Zero,
         total_invested |->
             IF buy THEN FAdd(Zero, FromInt(w.initial_capital)) ELSE Zero,
         bought |->
             IF buy THEN <<[kind |-> "initial", row |-> 1,
                            capital |-> w.initial_capital, price |-> initial_price]>>
             ELSE <<>>]

\* the locals after the initial investment, before the loop
LoopStart(w, d) ==
    LET start == d[1].Date
        initial_price == d[1].Price
        buy == initial_price > 0
    IN  [start_date |-> start,
         next_contribution_date |-> GetNextContributionDate(w, start, start),
         current_shares |->
             IF buy THEN FAdd(Zero, FDiv(FromInt(w.initial_capital), FromInt(initial_price)))
             ELSE Zero,
         total_invested |->
             IF buy THEN FAdd(Zero, FromInt(w.initial_capital)) ELSE Zero,
         bought |->
             IF buy THEN <<[kind |-> "initial", row |-> 1,
                            capital |-> w.initial_capital, price |-> initial_price]>>
             ELSE <<>>]

\* a contribution due only after the scheduled date
ContributionDueStrict(w, ncd, row) ==
    w.contribution_freq # "None" /\ DateLt(ncd, row.Date)

\* a contribution due whatever the frequency
ContributionDueNoGuard(w, ncd, row) == DateGe(row.Date, ncd)

\* the condition of line 55: a contribution is due on this row
ContributionDue(w, ncd, row) ==
    w.contribution_freq # "None" /\ DateGe(row.Date, ncd)

\* an iteration that values the portfolio before it buys
LoopBodyStaleValue(w, loc, row, i) ==
    LET due == ContributionDue(w, loc.next_contribution_date, row)
        buy == due /\ row.Price > 0
        shares == IF buy
                  THEN FAdd(loc.current_shares,
                            FDiv(FromInt(w.contribution_amount), FromInt(row.Price)))
                  ELSE loc.current_shares
        invested == IF buy
                    THEN FAdd(loc.total_invested, FromInt(w.contribution_amount))
                    ELSE loc.total_invested
    IN  [start_date |-> loc.start_date,
         next_contribution_date |->
             IF due
             THEN GetNextContributionDate(w, loc.start_date, loc.next_contribution_date)
             ELSE loc.next_contribution_date,
         current_shares |-> shares,
         total_invested |-> invested,
         bought |-> IF buy THEN <<[kind |-> "contribution", row |-> i,
                                   capital |-> w.contribution_amount,
                                   price |-> row.Price]>>
                    ELSE <<>>,
         portfolio_value |-> FMul(loc.current_shares, FromInt(row.Price)),
         invested_capital |-> invested]

\* an iteration that adds the amount, not the amount / price, to the shares
LoopBodyNoDivision(w, loc, row, i) ==
    LET due == ContributionDue(w, loc.next_contribution_date, row)
        buy == due /\ row.Price > 0
        shares == IF buy
                  THEN FAdd(loc.current_shares, FromInt(w.contribution_amount))
                  ELSE loc.current_shares
        invested == IF buy
                    THEN FAdd(loc.total_invested, FromInt(w.contribution_amount))
                    ELSE loc.total_invested
    IN  [start_date |-> loc.start_date,
         next_contribution_date |->
             IF due
             THEN GetNextContributionDate(w, loc.start_date, loc.next_contribution_date)
             ELSE loc.next_contribution_date,
         current_shares |-> shares,
         total_invested |-> invested,
         bought |-> IF buy THEN <<[kind |-> "contribution", row |-> i,
                                   capital |-> w.contribution_amount,
                                   price |-> row.Price]>>
                    ELSE <<>>,
         portfolio_value |-> FMul(shares, FromInt(row.Price)),
         invested_capital |-> invested]

\* an iteration that keeps a contribution it could not buy for the next row:
\* the schedule advances only when shares were bought
LoopBodyDeferred(w, loc, row, i) ==
    LET due == ContributionDue(w, loc.next_contribution_date, row)
        buy == due /\ row.Price > 0
        shares == IF buy
                  THEN FAdd(loc.current_shares,
                            FDiv(FromInt(w.contribution_amount), FromInt(row.Price)))
                  ELSE loc.current_shares
        invested == IF buy
                    THEN FAdd(loc.total_invested, FromInt(w.contribution_amount))
                    ELSE loc.total_invested
    IN  [start_date |-> loc.start_date,
         next_contribution_date |->
             IF buy
             THEN GetNextContributionDate(w, loc.start_date, loc.next_contribution_date)
             ELSE loc.next_contribution_date,
         current_shares |-> shares,
         total_invested |-> invested,
         bought |-> IF buy THEN <<[kind |-> "contribution", row |-> i,
                                   capital |-> w.contribution_amount,
                                   price |-> row.Price]>>
                    ELSE <<>>,
         portfolio_value |-> FMul(shares, FromInt(row.Price)),
         invested_capital |-> invested]

\* one iteration of the loop on the row at position i: the locals after it and
\* the two values it appends
LoopBody(w, loc, row, i) ==
    LET due == ContributionDue(w, loc.next_contribution_date, row)
        buy == due /\ row.Price > 0
        shares == IF buy
                  THEN FAdd(loc.current_shares,
                            FDiv(FromInt(w.contribution_amount), FromInt(row.Price)))
                  ELSE loc.current_shares
        invested == IF buy
                    THEN FAdd(loc.total_invested, FromInt(w.contribution_amount))
                    ELSE loc.total_invested
    IN  [start_date |-> loc.start_date,
         next_contribution_date |->
             IF due
             THEN GetNextContributionDate(w, loc.start_date, loc.next_contribution_date)
             ELSE loc.next_contribution_date,
         current_shares |-> shares,
         total_invested |-> invested,
         bought |-> IF buy THEN <<[kind |-> "contribution", row |-> i,
                                   capital |-> w.contribution_amount,
                                   price |-> row.Price]>>
                    ELSE <<>>,
         portfolio_value |-> FMul(shares, FromInt(row.Price)),
         invested_capital |-> invested]

\* the table built at lines 74-78
ResultTable(d, pvs, ics) ==
    [i \in 1..Len(d) |-> [Date |-> d[i].Date, PortfolioValue |-> pvs[i],
                          InvestedCapital |-> ics[i]]]

\* no indicator function is in use
IndicatorsIdle ==
    /\ table = <<>>
    /\ ma_periods = <<>>
    /\ returned = <<>>
    /\ ipc = "start"
    /\ given = <<>>
    /\ fn = ""
    /\ ncalls = 0
    /\ rsi_df = <<>>

\* no prediction model: the state before get_model
NoModel ==
    [exists |-> FALSE, fitted |-> FALSE,
     coef |-> Zero, intercept |-> Zero, std_dev |-> Zero]

NoCall ==
    [op |-> "", status |-> "", dates |-> <<>>,
     predictions |-> <<>>, lower |-> <<>>, upper |-> <<>>]

\* no prediction model is in use
PredictorIdle ==
    /\ model = NoModel
    /\ trained_on = <<>>
    /\ pcall = NoCall

NoRequest == [tickers |-> <<>>, start_date |-> NoDate, end_date |-> NoDate]

NoPriceData == [status |-> "none", columns |-> <<>>, rows |-> <<>>]

\* get_price_data is not in use
FetchIdle ==
    /\ market = <<>>
    /\ request = NoRequest
    /\ price_data = NoPriceData

NoSidebar ==
    [ticker |-> "", start_date |-> NoDate, end_date |-> NoDate,
     prediction_date |-> NoDate, initial_investment |-> 0,
     contribution_amount |-> 0, contribution_freq |-> "None",
     model_name |-> "", uncertainty_pct |-> 0]

\* the script of the page has drawn its inputs and no button was pressed
PageCleared ==
    /\ ppc = "form"
    /\ page_error = ""
    /\ steps = <<>>
    /\ df_all = <<>>
    /\ df_train = <<>>
    /\ df_test = <<>>
    /\ full_future_dates = <<>>
    /\ scenarios = <<>>

\* the simulation page is not open
PageIdle ==
    /\ sidebar = NoSidebar
    /\ today = NoDate
    /\ PageCleared

WalletInit ==
    /\ IndicatorsIdle
    /\ PredictorIdle
    /\ FetchIdle
    /\ PageIdle
    /\ wallet \in Wallets
    /\ price_df = <<>>
    /\ df = <<>>
    /\ pc = "idle"
    /\ idx = 0
    /\ start_date = NoDate
    /\ next_contribution_date = NoDate
    /\ current_shares = Zero
    /\ total_invested = Zero
    /\ portfolio_values = <<>>
    /\ invested_capital_values = <<>>
    /\ result = <<>>
    /\ purchases = <<>>

\* the caller builds the table s it is going to pass
Prepare(s) ==
    /\ pc = "idle"
    /\ pc' = "ready"
    /\ price_df' = s
    /\ UNCHANGED <<wallet, df, idx, start_date, next_contribution_date,
                   current_shares, total_invested, portfolio_values,
                   invested_capital_values, result, purchases>>
    /\ UNCHANGED <<ivars, pvars, fvars, gvars>>

\* simulate_portfolio is called with price_df: lines 25-43.  On a table
\* without rows df['Date'].iloc[0] raises IndexError.
Call ==
    /\ pc = "ready"
    /\ price_df' = CopyAndSort(price_df).caller
    /\ df' = CopyAndSort(price_df).work
    /\ portfolio_values' = <<>>
    /\ invested_capital_values' = <<>>
    /\ idx' = 1
    /\ IF price_df = <<>>
       THEN /\ pc' = "raised"
            /\ start_date' = NoDate
            /\ next_contribution_date' = NoDate
            /\ current_shares' = Zero
            /\ total_invested' = Zero
            /\ purchases' = <<>>
       ELSE LET loc == LoopStart(wallet, df')
            IN  /\ pc' = "loop"
                /\ start_date' = loc.start_date
                /\ next_contribution_date' = loc.next_contribution_date
                /\ current_shares' = loc.current_shares
                /\ total_invested' = loc.total_invested
                /\ purchases' = loc.bought
    /\ result' = <<>>
    /\ UNCHANGED wallet
    /\ UNCHANGED <<ivars, pvars, fvars, gvars>>

Locals ==
    [start_date |-> start_date, next_contribution_date |-> next_contribution_date,
     current_shares |-> current_shares, total_invested |-> total_invested]

\* one iteration of the loop: lines 45-72
Iterate ==
    /\ pc = "loop"
    /\ idx <= Len(df)
    /\ LET loc == LoopBody(wallet, Locals, df[idx], idx)
       IN  /\ next_contribution_date' = loc.next_contribution_date
           /\ current_shares' = loc.current_shares
           /\ total_invested' = loc.total_invested
           /\ purchases' = purchases \o loc.bought
           /\ portfolio_values' = Append(portfolio_values, loc.portfolio_value)
           /\ invested_capital_values' =
                  Append(invested_capital_values, loc.invested_capital)
    /\ idx' = idx + 1
    /\ UNCHANGED <<wallet, price_df, df, pc, start_date, result>>
    /\ UNCHANGED <<ivars, pvars, fvars, gvars>>

\* the loop is over: lines 74-79
Return ==
    /\ pc = "loop"
    /\ idx > Len(df)
    /\ result' = ResultTable(df, portfolio_values, invested_capital_values)
    /\ pc' = "done"
    /\ UNCHANGED <<wallet, price_df, df, idx, start_date, next_contribution_date,
                   current_shares, total_invested, portfolio_values,
                   invested_capital_values, purchases>>
    /\ UNCHANGED <<ivars, pvars, fvars, gvars>>

\* the caller picks a series
PrepareAny ==
    /\ pc = "idle"
    /\ \E S \in SUBSET DatePool :
           /\ Cardinality(S) <= MaxRows
           /\ \E pr \in [S -> PricePool], rev \in BOOLEAN :
                  Prepare(SeriesOf(S, pr, rev))

\* the call is over and its locals are gone; the caller keeps the Wallet object
\* and may call it again, as the simulation page does for its second scenario
Release ==
    /\ pc \in {"done", "raised"}
    /\ pc' = "idle"
    /\ price_df' = <<>>
    /\ df' = <<>>
    /\ idx' = 0
    /\ start_date' = NoDate
    /\ next_contribution_date' = NoDate
    /\ current_shares' = Zero
    /\ total_invested' = Zero
    /\ portfolio_values' = <<>>
    /\ invested_capital_values' = <<>>
    /\ result' = <<>>
    /\ purchases' = <<>>
    /\ UNCHANGED wallet
    /\ UNCHANGED <<ivars, pvars, fvars, gvars>>

WalletNext == PrepareAny \/ Call \/ Iterate \/ Return \/ Release

vars == <<wvars, ivars, pvars, fvars, gvars>>

SpecWallet == WalletInit /\ [][WalletNext]_vars

\* simulate_portfolio as a function of the wallet and the series: the rows it
\* returns (lines 17-79), for a series with at least one row
RECURSIVE LoopFrom(_, _, _, _)
LoopFrom(w, d, loc, i) ==
    IF i > Len(d) THEN <<>>
    ELSE LET nxt == LoopBody(w, loc, d[i], i)
         IN  <<[Date |-> d[i].Date, PortfolioValue |-> nxt.portfolio_value,
                InvestedCapital |-> nxt.invested_capital]>>
             \o LoopFrom(w, d, nxt, i + 1)

SimulatePortfolio(w, s) ==
    LET d == SortValues(s) IN LoopFrom(w, d, LoopStart(w, d), 1)

(***************************************************************************)
(* Properties of the wallet simulator.                                     *)
(***************************************************************************)
Periodic(w) == w.contribution_freq \in {"Monthly", "Quarterly", "Annually"}

PeriodMonths(w) ==
    IF w.contribution_freq = "Monthly" THEN 1
    ELSE IF w.contribution_freq = "Quarterly" THEN 3 ELSE 12

Done == pc = "done"

\* the shares bought by the logged purchases on rows up to i, added in order
RECURSIVE SharesBought(_, _)
SharesBought(log, i) ==
    IF log = <<>> THEN Zero
    ELSE LET e == log[Len(log)]
             before == SharesBought(SubSeq(log, 1, Len(log) - 1), i)
         IN  IF e.row <= i
             THEN FAdd(before, FDiv(FromInt(e.capital), FromInt(e.price)))
             ELSE before

\* how many periodic contributions were executed on rows up to i
ContributionsUpTo(log, i) ==
    Cardinality({j \in 1..Len(log) : log[j].kind = "contribution" /\ log[j].row <= i})

ConstantPositivePrice ==
    /\ df # <<>>
    /\ df[1].Price > 0
    /\ \A i \in 1..Len(df) : df[i].Price = df[1].Price

\* C1: in the output of simulate_portfolio, Invested Capital never decreases
\* from a row to the next, for every wallet configuration and price series.
C1_InvestedNonDecreasing ==
    Done => \A i \in 1..(Len(result) - 1) :
                FLe(result[i].InvestedCapital, result[i + 1].InvestedCapital)

\* C2 as stated: at every row the portfolio value is the shares bought so far
\* times the row's price, and the invested capital is the initial capital plus
\* the contributions executed so far.
C2_ValueAndInvestedAsStated ==
    Done => \A i \in 1..Len(result) :
        /\ result[i].PortfolioValue =
               FMul(SharesBought(purchases, i), FromInt(df[i].Price))
        /\ result[i].InvestedCapital =
               FromInt(wallet.initial_capital
                       + wallet.contribution_amount * ContributionsUpTo(purchases, i))

\* C2: at every row the portfolio value is the shares bought so far times the
\* row's price, and the invested capital is the capital of the purchases
\* executed so far: the initial capital if the first price is positive (it is
\* not invested otherwise) plus the contributions executed so far.
C2_ValueAndInvested ==
    Done => \A i \in 1..Len(result) :
        /\ result[i].PortfolioValue =
               FMul(SharesBought(purchases, i), FromInt(df[i].Price))
        /\ result[i].InvestedCapital =
               FromInt((IF df[1].Price > 0 THEN wallet.initial_capital ELSE 0)
                       + wallet.contribution_amount * ContributionsUpTo(purchases, i))

C2_Witness ==
    /\ Done
    /\ Len(result) >= 3
    /\ df[1].Price > 0
    /\ df[2].Price # df[1].Price
    /\ ContributionsUpTo(purchases, Len(df)) >= 2

\* C3: with a Monthly, Quarterly or Annually schedule, a row on or after the
\* next contribution date with a positive price adds exactly one contribution
\* amount to the invested capital and amount / price to the shares, and moves
\* the next contribution date by exactly one period; a row before the next
\* contribution date changes none of them; no row buys more than once.
C3_OneContributionPerDueRow ==
    [][ (pc = "loop" /\ idx <= Len(df) /\ Periodic(wallet)) =>
          LET row == df[idx]
              amount == FromInt(wallet.contribution_amount)
          IN  /\ (DateGe(row.Date, next_contribution_date) /\ row.Price > 0) =>
                    /\ total_invested' = FAdd(total_invested, amount)
                    /\ current_shares' =
                           FAdd(current_shares, FDiv(amount, FromInt(row.Price)))
                    /\ next_contribution_date' =
                           AddMonths(next_contribution_date, PeriodMonths(wallet))
              /\ DateLt(row.Date, next_contribution_date) =>
                    /\ total_invested' = total_invested
                    /\ current_shares' = current_shares
                    /\ next_contribution_date' = next_contribution_date
                    /\ purchases' = purchases
              /\ Len(purchases') <= Len(purchases) + 1
      ]_wvars

C3_Witness ==
    /\ Done
    /\ Periodic(wallet)
    /\ ContributionsUpTo(purchases, Len(df)) >= 1
    /\ \E i \in 2..Len(df) :
           /\ df[i].Price > 0
           /\ \A j \in 1..Len(purchases) : purchases[j].row # i

\* C4: missed periods are not backfilled: a row triggers a contribution only
\* for a scheduled date that the previous row had not reached yet, so after a
\* gap that spans several scheduled dates the following rows make no catch-up
\* contributions.
C4_NoBackfill ==
    [][ (pc = "loop" /\ idx <= Len(df) /\ idx >= 2 /\ df[idx].Price > 0
         /\ ContributionDue(wallet, next_contribution_date, df[idx]))
        => DateLt(df[idx - 1].Date, next_contribution_date) ]_wvars

\* the first row on or after date d, or 0
FirstRowFrom(d) ==
    IF \E i \in 1..Len(df) : DateGe(df[i].Date, d)
    THEN CHOOSE i \in 1..Len(df) :
             /\ DateGe(df[i].Date, d)
             /\ \A j \in 1..(i - 1) : DateLt(df[j].Date, d)
    ELSE 0

\* no contribution is bought before the first row that is one period after the
\* start, and one is bought on that row if its price is positive
FirstContributionOnTime ==
    Periodic(wallet) =>
        LET f == FirstRowFrom(AddMonths(df[1].Date, PeriodMonths(wallet)))
        IN  /\ f # 1
            /\ \A j \in 1..Len(purchases) :
                   purchases[j].kind = "contribution" =>
                       (f # 0 /\ purchases[j].row >= f)
            /\ (f # 0 /\ df[f].Price > 0) =>
                   \E j \in 1..Len(purchases) :
                       /\ purchases[j].kind = "contribution"
                       /\ purchases[j].row = f

C7_Causal ==
    Done => \A k \in 1..Len(df) :
                SubSeq(result, 1, k) = SimulatePortfolio(wallet, SubSeq(df, 1, k))

C7_Witness ==
    /\ Done
    /\ Len(df) >= 3
    /\ df[3].Price # df[2].Price
    /\ ContributionsUpTo(purchases, 2) >= 1
    /\ ContributionsUpTo(purchases, 3) >= 2

\* C8: with the frequency None no periodic contribution is ever made: Invested
\* Capital is the same at every row, the initial capital when the first price
\* is positive.
C8_NoneNeverContributes ==
    (Done /\ wallet.contribution_freq = "None") =>
        /\ \A j \in 1..Len(purchases) : purchases[j].kind = "initial"
        /\ \A i \in 1..Len(result) :
               result[i].InvestedCapital = result[1].InvestedCapital
        /\ df[1].Price > 0 =>
               result[1].InvestedCapital = FromInt(wallet.initial_capital)

C8_Witness ==
    /\ Done
    /\ wallet.contribution_freq = "None"
    /\ Len(df) >= 2
    /\ df[1].Price > 0
    /\ df[Len(df)].Price > 0
    /\ DateGe(df[Len(df)].Date, next_contribution_date)

\* C9: a call leaves the caller's table and the wallet's three fields as they
\* were, and its result depends on them alone: it is what a call on any wallet
\* with the same fields returns for that table, whatever was simulated before.
C9_CallLeavesInputsAlone ==
    [][ /\ wallet' = wallet
        /\ (pc # "idle") => price_df' = price_df \/ pc' = "idle"
        /\ (pc' = "done") => result' = SimulatePortfolio(wallet, price_df)
      ]_wvars

C9_Witness ==
    /\ Done
    /\ Len(price_df) >= 3
    /\ price_df # df
    /\ ContributionsUpTo(purchases, Len(df)) >= 1
    /\ result = SimulatePortfolio(wallet, price_df)

\* the capital of the logged purchases, added in order
RECURSIVE CapitalLogged(_)
CapitalLogged(log) ==
    IF log = <<>> THEN Zero
    ELSE FAdd(CapitalLogged(SubSeq(log, 1, Len(log) - 1)),
              FromInt(log[Len(log)].capital))

\* every logged purchase was made at a positive price, the initial one on the
\* first row, and no row holds two periodic contributions
PurchasesAtPositivePrices(log, d) ==
    /\ \A j \in 1..Len(log) :
           /\ log[j].price > 0
           /\ log[j].price = d[log[j].row].Price
           /\ log[j].kind = "initial" =>
                  (j = 1 /\ log[j].row = 1 /\ log[j].capital = wallet.initial_capital)
           /\ log[j].kind = "contribution" =>
                  log[j].capital = wallet.contribution_amount
    /\ \A j, k \in 1..Len(log) :
           (j < k /\ log[j].kind = "contribution") => log[j].row < log[k].row

\* C25: a purchase that falls on a row whose price is <= 0 buys no shares and
\* leaves Invested Capital as it was; a due contribution still moves the
\* schedule by one period; the capital is lost: Invested Capital is at every
\* step the sum of the purchases made at positive prices, at most the initial
\* one and one contribution per row.
C25_NonPositivePriceLost ==
    [][ /\ (pc = "ready" /\ pc' = "loop" /\ df'[1].Price <= 0) =>
               /\ current_shares' = Zero
               /\ total_invested' = Zero
               /\ purchases' = <<>>
        /\ (/\ pc = "loop" /\ idx <= Len(df)
            /\ ContributionDue(wallet, next_contribution_date, df[idx])
            /\ df[idx].Price <= 0) =>
               /\ current_shares' = current_shares
               /\ total_invested' = total_invested
               /\ purchases' = purchases
               /\ invested_capital_values' =
                      Append(invested_capital_values, total_invested)
               /\ next_contribution_date' =
                      AddMonths(next_contribution_date, PeriodMonths(wallet))
        /\ PurchasesAtPositivePrices(purchases', df')
        /\ total_invested' = CapitalLogged(purchases')
      ]_wvars

\* a Monthly series from January 31 whose February row has the price 0 and
\* whose third row has a positive price: the third row buys its own
\* contribution and no more
C25_Witness ==
    /\ Done
    /\ wallet.contribution_freq = "Monthly"
    /\ wallet.contribution_amount > 0
    /\ Len(df) >= 3
    /\ df[1].Date = <<2023, 1, 31>> /\ df[1].Price > 0
    /\ df[2].Date = <<2023, 2, 28>> /\ df[2].Price = 0
    /\ df[3].Price > 0
    /\ result[2].InvestedCapital = FromInt(wallet.initial_capital)
    /\ result[3].InvestedCapital =
           FAdd(FromInt(wallet.initial_capital), FromInt(wallet.contribution_amount))

AscendingDates(t) ==
    \A i \in 1..(Len(t) - 1) : DateLt(t[i].Date, t[i + 1].Date)

\* C27: simulate_portfolio on a series with zero rows does not raise and
\* returns a result with no rows; on a series with rows the result has one row
\* per input row, in ascending date order.
C27_EmptySeriesReturnsEmpty ==
    /\ pc # "raised"
    /\ Done => /\ Len(result) = Len(price_df)
               /\ AscendingDates(result)
               /\ { result[i].Date : i \in 1..Len(result) }
                      = { price_df[i].Date : i \in 1..Len(price_df) }

\* C28: with a Monthly, Quarterly or Annually schedule the next contribution
\* date is always the start date advanced by a whole number k of periods (k,
\* 3k or 12k calendar months), with the start date's day-of-month where the
\* target month has that day.
C28_ScheduleAnchoredToStart ==
    (pc = "loop" /\ Periodic(wallet)) =>
        \E k \in 1..idx :
            next_contribution_date = AddMonths(start_date, k * PeriodMonths(wallet))

(***************************************************************************)
(* The indicator functions (src/indicators.py).                            *)
(*                                                                         *)
(* A table is a sequence of columns over one date axis, in column order.   *)
(* A column is [name, values].  A name is the ticker followed by the       *)
(* suffixes appended to it, [ticker, parts], a part being [tag, n]:        *)
(* "AAPL_MA10" is the ticker "AAPL" with the part ["_MA", 10].  Tickers    *)
(* hold no underscore.  A value is a float, or NaN where the pivoted table *)
(* has no price of that ticker on that date.                               *)
(***************************************************************************)
\* most dates in a price table
MaxDates == 3

NaN == <<0, 1>>

IsNaN(x) == x = NaN

Tickers == <<"AAPL", "GOOG">>
CellPool == {NaN, FromInt(1), FromInt(2)}
SecondCellPool == {NaN, FromInt(2)}
PeriodPool == {1, 2, 3}
InvalidPeriodPool == {-1, 0}

RawName(t) == [ticker |-> t, parts |-> <<>>]

\* f'{ticker}_MA{period}'
MaName(name, period) ==
    [ticker |-> name.ticker,
     parts |-> Append(name.parts, [tag |-> "_MA", n |-> period])]

\* the test of add_52w_high_low used in its place: only the end of the name
LooksLikeIndicatorBySuffix(name) ==
    /\ name.parts # <<>>
    /\ name.parts[Len(name.parts)].tag \in {"_52w_high", "_52w_low"}

\* '_MA' in ticker or '_52w' in ticker
LooksLikeIndicator(name) ==
    \E k \in 1..Len(name.parts) :
        name.parts[k].tag \in {"_MA", "_52w_high", "_52w_low"}

\* the tables a caller can pass: one or two raw columns over 1..MaxDates dates;
\* the second column has gaps too, and fewer distinct prices
Tables ==
    UNION { { <<[name |-> RawName(Tickers[1]), values |-> v]>> :
                v \in [1..n -> CellPool] }
            \cup { <<[name |-> RawName(Tickers[1]), values |-> v],
                      [name |-> RawName(Tickers[2]), values |-> w]>> :
                    v \in [1..n -> CellPool], w \in [1..n -> SecondCellPool] } :
            n \in 1..MaxDates }

\* the ma_periods arguments a caller can pass: an int or a list of ints
ValidPeriodArgs ==
    { [is_int |-> TRUE, n |-> p, list |-> <<>>] : p \in PeriodPool }
    \cup { [is_int |-> FALSE, n |-> 0, list |-> <<p>>] : p \in PeriodPool }
    \cup { [is_int |-> FALSE, n |-> 0, list |-> <<pq[1], pq[2]>>] :
               pq \in {x \in PeriodPool \X PeriodPool : x[1] < x[2]} }

\* arguments with a period below 1: alone, before and after a valid period
InvalidPeriodArgs ==
    { [is_int |-> TRUE, n |-> q, list |-> <<>>] : q \in InvalidPeriodPool }
    \cup { [is_int |-> FALSE, n |-> 0, list |-> <<q>>] : q \in InvalidPeriodPool }
    \cup { [is_int |-> FALSE, n |-> 0, list |-> <<2, q>>] : q \in InvalidPeriodPool }
    \cup { [is_int |-> FALSE, n |-> 0, list |-> <<q, 2>>] : q \in InvalidPeriodPool }

PeriodArgs == ValidPeriodArgs \cup InvalidPeriodArgs

\* lines 10-11: an int becomes a list of one
PeriodList(arg) == IF arg.is_int THEN <<arg.n>> ELSE arg.list

FNeg(x) == <<-x[1], x[2]>>

\* Series.rolling(window=period, min_periods=1).mean(): a running sum and a
\* running count of the prices present in the window; the mean where the
\* window holds a price, NaN where it holds none
RECURSIVE RollingMeanFrom(_, _, _, _, _)
RollingMeanFrom(vals, period, i, sum, nobs) ==
    IF i > Len(vals) THEN <<>>
    ELSE LET added == ~IsNaN(vals[i])
             removed == i - period >= 1 /\ ~IsNaN(vals[i - period])
             s1 == IF added THEN FAdd(sum, vals[i]) ELSE sum
             s2 == IF removed THEN FAdd(s1, FNeg(vals[i - period])) ELSE s1
             n2 == nobs + (IF added THEN 1 ELSE 0) - (IF removed THEN 1 ELSE 0)
         IN  <<IF n2 >= 1 THEN FDiv(s2, FromInt(n2)) ELSE NaN>>
             \o RollingMeanFrom(vals, period, i + 1, s2, n2)

\* rolling(window=period).mean() without min_periods=1: no value until the
\* window is full
RollingMeanFullWindow(vals, period) ==
    [i \in 1..Len(vals) |->
        IF i < period THEN NaN ELSE RollingMeanFrom(vals, period, 1, Zero, 0)[i]]

RollingMean(vals, period) == RollingMeanFrom(vals, period, 1, Zero, 0)

\* position of the column called name in the table t, or 0
ColumnIndex(t, name) ==
    IF \E k \in 1..Len(t) : t[k].name = name
    THEN CHOOSE k \in 1..Len(t) : t[k].name = name
    ELSE 0

\* df[name] = values: the column is replaced where it is, or appended
SetColumn(t, name, vals) ==
    IF ColumnIndex(t, name) # 0
    THEN [t EXCEPT ![ColumnIndex(t, name)] = [name |-> name, values |-> vals]]
    ELSE Append(t, [name |-> name, values |-> vals])

\* lines 20-21 for one ticker: a column per period, until a period is rejected
\* (rolling raises ValueError for a window below min_periods = 1)
RECURSIVE AddPeriods(_, _, _, _)
AddPeriods(t, name, periods, k) ==
    IF k > Len(periods) THEN [table |-> t, raised |-> FALSE]
    ELSE IF periods[k] < 1 THEN [table |-> t, raised |-> TRUE]
    ELSE AddPeriods(SetColumn(t, MaName(name, periods[k]),
                              RollingMean(t[ColumnIndex(t, name)].values, periods[k])),
                    name, periods, k + 1)

\* lines 14-21: the loop over the snapshot cols of the column names
RECURSIVE AddToColumns(_, _, _, _)
AddToColumns(t, cols, periods, c) ==
    IF c > Len(cols) THEN [table |-> t, raised |-> FALSE]
    ELSE IF LooksLikeIndicator(cols[c]) THEN AddToColumns(t, cols, periods, c + 1)
    ELSE LET one == AddPeriods(t, cols[c], periods, 1)
         IN  IF one.raised THEN one
             ELSE AddToColumns(one.table, cols, periods, c + 1)

\* add_moving_average(df, ma_periods): df after the call, and whether it raised
AddMovingAverage(t, arg) ==
    AddToColumns(t, [k \in 1..Len(t) |-> t[k].name], PeriodList(arg), 1)

\* win = 252
Win52w == 252

\* f'{ticker}_52w_high', f'{ticker}_52w_low': a part without a number
HighName(name) ==
    [ticker |-> name.ticker,
     parts |-> Append(name.parts, [tag |-> "_52w_high", n |-> 0])]

LowName(name) ==
    [ticker |-> name.ticker,
     parts |-> Append(name.parts, [tag |-> "_52w_low", n |-> 0])]

\* ticker.endswith(('_MA', '_52w_high', '_52w_low')): the text of a name ends
\* with its last part; a "_MA" part is followed by the digits of its period,
\* so a name whose last part is a moving average does not end with '_MA'
EndsWithIndicator(name) ==
    /\ name.parts # <<>>
    /\ name.parts[Len(name.parts)].tag \in {"_52w_high", "_52w_low"}

\* the largest price present at the positions lo..hi, NaN if none is
RECURSIVE MaxBetween(_, _, _)
MaxBetween(vals, lo, hi) ==
    IF lo > hi THEN NaN
    ELSE IF lo = hi THEN vals[lo]
    ELSE LET mid == (lo + hi) \div 2
             left == MaxBetween(vals, lo, mid)
             right == MaxBetween(vals, mid + 1, hi)
         IN  IF IsNaN(left) THEN right
             ELSE IF IsNaN(right) THEN left
             ELSE IF FLe(left, right) THEN right ELSE left

\* the smallest price present at the positions lo..hi, NaN if none is
RECURSIVE MinBetween(_, _, _)
MinBetween(vals, lo, hi) ==
    IF lo > hi THEN NaN
    ELSE IF lo = hi THEN vals[lo]
    ELSE LET mid == (lo + hi) \div 2
             left == MinBetween(vals, lo, mid)
             right == MinBetween(vals, mid + 1, hi)
         IN  IF IsNaN(left) THEN right
             ELSE IF IsNaN(right) THEN left
             ELSE IF FLe(left, right) THEN left ELSE right

\* first position of the window of win positions that ends at i
WindowStart(i, win) == IF i - win + 1 > 1 THEN i - win + 1 ELSE 1

\* expanding().max() in its place: the window never lets go of a price
RollingMaxExpanding(vals, win) ==
    [i \in 1..Len(vals) |-> MaxBetween(vals, 1, i)]

\* Series.rolling(window=win, min_periods=1).max()
RollingMax(vals, win) ==
    [i \in 1..Len(vals) |-> MaxBetween(vals, WindowStart(i, win), i)]

\* Series.rolling(window=win, min_periods=1).min()
RollingMin(vals, win) ==
    [i \in 1..Len(vals) |-> MinBetween(vals, WindowStart(i, win), i)]

\* lines 27-31: the loop over df.columns, the column index the table had when
\* the loop started (an assignment of a new column replaces the index object)
RECURSIVE Add52wToColumns(_, _, _)
Add52wToColumns(t, cols, c) ==
    IF c > Len(cols) THEN t
    ELSE IF EndsWithIndicator(cols[c]) THEN Add52wToColumns(t, cols, c + 1)
    ELSE LET prices == t[ColumnIndex(t, cols[c])].values
             high == SetColumn(t, HighName(cols[c]), RollingMax(prices, Win52w))
             low == SetColumn(high, LowName(cols[c]), RollingMin(prices, Win52w))
         IN  Add52wToColumns(low, cols, c + 1)

\* add_52w_high_low(df): df after the call
Add52wHighLow(t) == Add52wToColumns(t, [k \in 1..Len(t) |-> t[k].name], 1)

\* rsi_period = 14
RsiPeriod == 14

\* the positions of vals that hold a price, in order: the index of dropna()
RECURSIVE PresentPositions(_, _)
PresentPositions(vals, i) ==
    IF i > Len(vals) THEN <<>>
    ELSE IF IsNaN(vals[i]) THEN PresentPositions(vals, i + 1)
    ELSE <<i>> \o PresentPositions(vals, i + 1)

\* series.diff(): no value at the first entry
Diff(series) ==
    [k \in 1..Len(series) |->
        IF k = 1 THEN NaN ELSE FAdd(series[k], FNeg(series[k - 1]))]

\* delta.clip(lower=0)
Up(x) == IF IsNaN(x) THEN NaN ELSE IF x[1] < 0 THEN Zero ELSE x

\* -1 * delta.clip(upper=0)
Down(x) == IF IsNaN(x) THEN NaN ELSE IF x[1] > 0 THEN Zero ELSE FNeg(x)

\* alpha = 1 / rsi_period
Alpha == FDiv(FromInt(1), FromInt(RsiPeriod))

\* the weight of the running average in ewm(alpha, adjust=False): 1 - alpha
OldWeight == FAdd(FromInt(1), FNeg(Alpha))

\* ewm(alpha=1/rsi_period, adjust=False).mean() from entry k on, weighted being
\* the running average (NaN before the first value): an entry without a value
\* leaves it as it is, the first value starts it, a value equal to it leaves
\* it as it is, any other value x makes it
\* ((1 - alpha) * weighted + alpha * x) / ((1 - alpha) + alpha)
RECURSIVE EwmFrom(_, _, _)
EwmFrom(vals, k, weighted) ==
    IF k > Len(vals) THEN <<>>
    ELSE LET cur == vals[k]
             next == IF IsNaN(weighted) THEN cur
                     ELSE IF IsNaN(cur) \/ weighted = cur THEN weighted
                     ELSE FDiv(FAdd(FMul(OldWeight, weighted), FMul(Alpha, cur)),
                               FAdd(OldWeight, Alpha))
         IN  <<next>> \o EwmFrom(vals, k + 1, next)

Ewm(vals) == EwmFrom(vals, 1, NaN)

\* lines 51-57 for one entry: 100 - 100 / (1 + ma_up / ma_down); ma_up / 0 is
\* inf for ma_up > 0, which gives 100 - 0, and NaN for ma_up = 0; line 55
\* writes 100 where ma_down == 0 and line 57 writes 50 where both are 0; a NaN
\* operand gives NaN and equals nothing, so no line rewrites it
RsiValue(ma_up, ma_down) ==
    IF IsNaN(ma_up) \/ IsNaN(ma_down) THEN NaN
    ELSE IF ma_down = Zero /\ ma_up = Zero THEN FromInt(50)
    ELSE IF ma_down = Zero THEN FromInt(100)
    ELSE FAdd(FromInt(100),
              FNeg(FDiv(FromInt(100), FAdd(FromInt(1), FDiv(ma_up, ma_down)))))

\* lines 45-57: the RSI of a series without gaps
RsiOfSeries(series) ==
    LET delta == Diff(series)
        ma_up == Ewm([k \in 1..Len(series) |-> Up(delta[k])])
        ma_down == Ewm([k \in 1..Len(series) |-> Down(delta[k])])
    IN  [k \in 1..Len(series) |-> RsiValue(ma_up[k], ma_down[k])]

\* lines 38-60: rsi_frames, in column order: for every column whose name does
\* not end like an indicator and that has a price, the RSI of its prices,
\* indexed by the positions that have a price
RECURSIVE RsiFrames(_, _)
RsiFrames(t, c) ==
    IF c > Len(t) THEN <<>>
    ELSE LET index == PresentPositions(t[c].values, 1)
             series == [k \in 1..Len(index) |-> t[c].values[index[k]]]
         IN  IF EndsWithIndicator(t[c].name) \/ index = <<>>
             THEN RsiFrames(t, c + 1)
             ELSE <<[name |-> t[c].name, index |-> index,
                     values |-> RsiOfSeries(series)]>> \o RsiFrames(t, c + 1)

\* the members of a set of positions in ascending order
RECURSIVE SortedPositions(_)
SortedPositions(S) ==
    IF S = {} THEN <<>>
    ELSE LET least == CHOOSE x \in S : \A y \in S : x <= y
         IN  <<least>> \o SortedPositions(S \ {least})

\* the entry of a frame at position p, NaN where it has none
EntryAt(frame, p) ==
    IF \E k \in 1..Len(frame.index) : frame.index[k] = p
    THEN frame.values[CHOOSE k \in 1..Len(frame.index) : frame.index[k] = p]
    ELSE NaN

\* lines 62-64: pd.DataFrame(rsi_frames) has the union of the indexes of the
\* series as its index and NaN where a series has no entry; pd.DataFrame() has
\* no row and no column
DataFrameOf(frames) ==
    LET index == SortedPositions(UNION {{frames[c].index[k] : k \in 1..Len(frames[c].index)} :
                                        c \in 1..Len(frames)})
    IN  [index |-> index,
         columns |-> [c \in 1..Len(frames) |->
                        [name |-> frames[c].name,
                         values |-> [k \in 1..Len(index) |->
                                        EntryAt(frames[c], index[k])]]]]

\* calculate_rsi(df)
CalculateRsi(t) == DataFrameOf(RsiFrames(t, 1))

IndicatorsInit ==
    /\ table \in Tables
    /\ ma_periods = <<>>
    /\ returned = <<>>
    /\ ipc = "start"
    /\ given = <<>>
    /\ fn = ""
    /\ ncalls = 0
    /\ rsi_df = <<>>
    /\ PredictorIdle
    /\ FetchIdle
    /\ PageIdle
    /\ wallet = NewWallet(0, 0, "None")
    /\ price_df = <<>>
    /\ df = <<>>
    /\ pc = "idle"
    /\ idx = 0
    /\ start_date = NoDate
    /\ next_contribution_date = NoDate
    /\ current_shares = Zero
    /\ total_invested = Zero
    /\ portfolio_values = <<>>
    /\ invested_capital_values = <<>>
    /\ result = <<>>
    /\ purchases = <<>>

\* the caller calls add_moving_average(table, arg); the function works on the
\* table it is given and returns it
CallAddMovingAverage(arg) ==
    /\ ipc = "start"
    /\ LET out == AddMovingAverage(table, arg)
       IN  /\ table' = out.table
           /\ returned' = IF out.raised THEN <<>> ELSE out.table
           /\ ipc' = IF out.raised THEN "raised" ELSE "returned"
    /\ ma_periods' = PeriodList(arg)
    /\ given' = table
    /\ fn' = "add_moving_average"
    /\ ncalls' = ncalls + 1
    /\ UNCHANGED rsi_df
    /\ UNCHANGED <<wvars, pvars, fvars, gvars>>

CallAddMovingAverageAny ==
    /\ ipc = "start"
    /\ \E arg \in PeriodArgs : CallAddMovingAverage(arg)

\* the caller calls add_52w_high_low(table)
CallAdd52wHighLow ==
    /\ ipc = "start"
    /\ table' = Add52wHighLow(table)
    /\ returned' = table'
    /\ ipc' = "returned"
    /\ given' = table
    /\ fn' = "add_52w_high_low"
    /\ ncalls' = ncalls + 1
    /\ UNCHANGED <<ma_periods, rsi_df>>
    /\ UNCHANGED <<wvars, pvars, fvars, gvars>>

\* the caller calls calculate_rsi(table)
CallCalculateRsi ==
    /\ ipc = "start"
    /\ rsi_df' = CalculateRsi(table)
    /\ ipc' = "returned"
    /\ given' = table
    /\ fn' = "calculate_rsi"
    /\ ncalls' = ncalls + 1
    /\ UNCHANGED <<table, ma_periods, returned>>
    /\ UNCHANGED <<wvars, pvars, fvars, gvars>>

IndicatorsNext == CallAddMovingAverageAny \/ CallAdd52wHighLow \/ CallCalculateRsi

SpecIndicators == IndicatorsInit /\ [][IndicatorsNext]_vars

\* a strictly increasing series of n prices
IncreasingSeries(n) == [k \in 1..n |-> Norm(16 + ((k - 1) % 16), (k - 1) \div 16)]

\* tables of one ticker with as many dates as the 52-week window and one more:
\* rising prices, falling prices, rising prices after a first date without one
LongTables ==
    UNION { { <<[name |-> RawName(Tickers[1]), values |-> IncreasingSeries(n)]>>,
              <<[name |-> RawName(Tickers[1]),
                 values |-> [k \in 1..n |-> IncreasingSeries(n)[n + 1 - k]]]>>,
              <<[name |-> RawName(Tickers[1]),
                 values |-> [k \in 1..n |-> IF k = 1 THEN NaN
                                             ELSE IncreasingSeries(n)[k]]]>> } :
            n \in {Win52w, Win52w + 1} }

HighLowInit ==
    /\ table \in Tables \cup LongTables
    /\ ma_periods = <<>>
    /\ returned = <<>>
    /\ ipc = "start"
    /\ given = <<>>
    /\ fn = ""
    /\ ncalls = 0
    /\ rsi_df = <<>>
    /\ PredictorIdle
    /\ FetchIdle
    /\ PageIdle
    /\ wallet = NewWallet(0, 0, "None")
    /\ price_df = <<>>
    /\ df = <<>>
    /\ pc = "idle"
    /\ idx = 0
    /\ start_date = NoDate
    /\ next_contribution_date = NoDate
    /\ current_shares = Zero
    /\ total_invested = Zero
    /\ portfolio_values = <<>>
    /\ invested_capital_values = <<>>
    /\ result = <<>>
    /\ purchases = <<>>

\* add_52w_high_low alone, on short tables and on tables longer than its window
SpecHighLow == HighLowInit /\ [][CallAdd52wHighLow]_vars

\* most calls made on one table
MaxCalls == 2

\* the tables of the runs of several calls: at most two dates, no gaps
ChainTables ==
    {t \in Tables :
        /\ Len(t[1].values) <= 2
        /\ \A c \in 1..Len(t) : \A i \in 1..Len(t[c].values) :
               ~IsNaN(t[c].values[i])}

IndicatorCallsInit ==
    /\ IndicatorsInit
    /\ table \in ChainTables

\* the caller passes the table it got back to the next indicator function
CallAgain ==
    /\ ipc = "returned"
    /\ ncalls < MaxCalls
    /\ ipc' = "start"
    /\ UNCHANGED <<table, ma_periods, returned, given, fn, ncalls, rsi_df>>
    /\ UNCHANGED <<wvars, pvars, fvars, gvars>>

IndicatorCallsNext == IndicatorsNext \/ CallAgain

SpecIndicatorCalls == IndicatorCallsInit /\ [][IndicatorCallsNext]_vars

(***************************************************************************)
(* Properties of the indicator functions.                                  *)
(***************************************************************************)
\* the raw columns of a table
RawColumns(t) == {k \in 1..Len(t) : t[k].name.parts = <<>>}

\* the positions of the window of period P that ends at position i
Window(P, i) == {j \in 1..i : j >= i - P + 1}

RECURSIVE SumOver(_, _)
SumOver(vals, J) ==
    IF J = {} THEN Zero
    ELSE LET j == CHOOSE x \in J : TRUE
         IN  FAdd(SumOver(vals, J \ {j}), vals[j])

\* the mean of the prices present at the positions J, NaN if none is
MeanOver(vals, J) ==
    LET present == {j \in J : ~IsNaN(vals[j])}
    IN  IF present = {} THEN NaN
        ELSE FDiv(SumOver(vals, present), FromInt(Cardinality(present)))

\* C10 as stated: after add_moving_average, every raw column has for every
\* requested period P a column whose value at each date is the mean of the
\* prices of the window of P dates ending there; it is defined at every date
\* and at the first date it is the price of that date.
C10_MovingAverageAsStated ==
    ipc = "returned" =>
        \A r \in RawColumns(returned) : \A k \in 1..Len(ma_periods) :
            LET c == ColumnIndex(returned, MaName(returned[r].name, ma_periods[k]))
                prices == returned[r].values
            IN  /\ c # 0
                /\ \A i \in 1..Len(prices) :
                       /\ ~IsNaN(returned[c].values[i])
                       /\ returned[c].values[i] = MeanOver(prices, Window(ma_periods[k], i))
                /\ returned[c].values[1] = prices[1]
                /\ ~IsNaN(prices[1])

\* C10: after add_moving_average, every raw column has for every requested
\* period P a column whose value at each date is the mean of the prices
\* present in the window of P dates ending there; it is defined at every date
\* whose window holds a price, so at every date of a column without gaps, and
\* at the first date it is the price of that date when there is one.
C10_MovingAverage ==
    ipc = "returned" =>
        \A r \in RawColumns(returned) : \A k \in 1..Len(ma_periods) :
            LET c == ColumnIndex(returned, MaName(returned[r].name, ma_periods[k]))
                prices == returned[r].values
            IN  /\ c # 0
                /\ \A i \in 1..Len(prices) :
                       /\ returned[c].values[i] = MeanOver(prices, Window(ma_periods[k], i))
                       /\ IsNaN(returned[c].values[i]) <=>
                              \A j \in Window(ma_periods[k], i) : IsNaN(prices[j])
                /\ (\A i \in 1..Len(prices) : ~IsNaN(prices[i])) =>
                       \A i \in 1..Len(prices) : ~IsNaN(returned[c].values[i])
                /\ returned[c].values[1] = prices[1]

C10_Witness ==
    /\ ipc = "returned"
    /\ Len(ma_periods) = 2
    /\ ma_periods[1] = 2
    /\ ma_periods[2] = 3
    /\ Cardinality(RawColumns(returned)) = 2
    /\ Len(returned) = 6
    /\ Len(returned[1].values) = 3
    /\ returned[1].values = <<FromInt(1), FromInt(2), FromInt(2)>>
    /\ IsNaN(returned[2].values[1])
    /\ ~IsNaN(returned[2].values[2])

(***************************************************************************)
(* Properties of runs of several indicator calls on one table.             *)
(***************************************************************************)
\* the names of the columns of a table
Names(t) == {t[k].name : k \in 1..Len(t)}

\* the values of the column called name
ValuesOf(t, name) == t[ColumnIndex(t, name)].values

\* the names of the raw ticker columns of a table
RawNames(t) == {nm \in Names(t) : nm.parts = <<>>}

MaReturned == ipc = "returned" /\ fn = "add_moving_average"

HighLowReturned == ipc = "returned" /\ fn = "add_52w_high_low"

\* the positions of the 52-week window ending at i that hold a price
PresentIn(vals, i) == {j \in WindowStart(i, Win52w)..i : ~IsNaN(vals[j])}

\* x is the largest of the prices at the positions J, NaN when J is empty
IsMaxOf(x, vals, J) ==
    IF J = {} THEN IsNaN(x)
    ELSE (\E j \in J : vals[j] = x) /\ (\A j \in J : FLe(vals[j], x))

\* x is the smallest of the prices at the positions J, NaN when J is empty
IsMinOf(x, vals, J) ==
    IF J = {} THEN IsNaN(x)
    ELSE (\E j \in J : vals[j] = x) /\ (\A j \in J : FLe(x, vals[j]))

StrictlyIncreasing(vals) ==
    /\ \A i \in 1..Len(vals) : ~IsNaN(vals[i])
    /\ \A i \in 1..(Len(vals) - 1) : FLe(vals[i], vals[i + 1]) /\ vals[i] # vals[i + 1]

\* C13 as stated: after add_52w_high_low every raw column has a high and a
\* low column with low <= price <= high at every date, the maximum and the
\* minimum of the prices of the window; on a strictly increasing series the
\* high at the final date is the final price and the low at the final date is
\* the minimum price of the series.
C13_HighLowAsStated ==
    HighLowReturned =>
        \A r \in RawNames(given) :
            LET prices == ValuesOf(given, r)
                n == Len(prices)
            IN  /\ HighName(r) \in Names(returned)
                /\ LowName(r) \in Names(returned)
                /\ \A i \in 1..n :
                       LET high == ValuesOf(returned, HighName(r))[i]
                           low == ValuesOf(returned, LowName(r))[i]
                       IN  /\ ~IsNaN(prices[i]) /\ ~IsNaN(high) /\ ~IsNaN(low)
                           /\ FLe(low, prices[i]) /\ FLe(prices[i], high)
                           /\ IsMaxOf(high, prices, PresentIn(prices, i))
                           /\ IsMinOf(low, prices, PresentIn(prices, i))
                /\ StrictlyIncreasing(prices) =>
                       /\ ValuesOf(returned, HighName(r))[n] = prices[n]
                       /\ IsMinOf(ValuesOf(returned, LowName(r))[n], prices, 1..n)

\* C13: after add_52w_high_low every raw column has a high and a low column,
\* at every date the maximum and the minimum of the prices present in the
\* window of 252 dates ending there (NaN where the window holds no price),
\* so low <= price <= high at every date that has a price; on a strictly
\* increasing series the high at the final date is the final price and the
\* low at the final date is the first price of the final window, the minimum
\* of the series when the series has at most 252 dates.
C13_HighLow ==
    HighLowReturned =>
        \A r \in RawNames(given) :
            LET prices == ValuesOf(given, r)
                n == Len(prices)
            IN  /\ HighName(r) \in Names(returned)
                /\ LowName(r) \in Names(returned)
                /\ \A i \in 1..n :
                       LET high == ValuesOf(returned, HighName(r))[i]
                           low == ValuesOf(returned, LowName(r))[i]
                       IN  /\ IsMaxOf(high, prices, PresentIn(prices, i))
                           /\ IsMinOf(low, prices, PresentIn(prices, i))
                           /\ ~IsNaN(prices[i]) =>
                                  /\ ~IsNaN(high) /\ ~IsNaN(low)
                                  /\ FLe(low, prices[i]) /\ FLe(prices[i], high)
                /\ StrictlyIncreasing(prices) =>
                       /\ ValuesOf(returned, HighName(r))[n] = prices[n]
                       /\ ValuesOf(returned, LowName(r))[n] =
                              prices[WindowStart(n, Win52w)]
                       /\ n <= Win52w =>
                              IsMinOf(ValuesOf(returned, LowName(r))[n], prices, 1..n)

C13_Witness ==
    /\ HighLowReturned
    /\ Len(given) = 1
    /\ Len(given[1].values) = Win52w + 1
    /\ StrictlyIncreasing(given[1].values)
    /\ Len(returned) = 3
    /\ returned[3].values[Win52w + 1] = given[1].values[2]

(***************************************************************************)
(* Properties of calculate_rsi and of the frame of the indicator calls.    *)
(***************************************************************************)
RsiReturned == ipc = "returned" /\ fn = "calculate_rsi"

\* the names of the columns of the frame calculate_rsi returned
RsiNames == {rsi_df.columns[c].name : c \in 1..Len(rsi_df.columns)}

\* the names of the columns of a table that hold a price at some date
NamesWithPrice(t) ==
    {t[c].name : c \in {k \in 1..Len(t) :
                            \E i \in 1..Len(t[k].values) : ~IsNaN(t[k].values[i])}}

\* C12: add_52w_high_low and calculate_rsi skip every derived column: on a
\* table that earlier calls of add_moving_average and add_52w_high_low have
\* extended, add_52w_high_low adds a high and a low column for the raw ticker
\* columns only, and calculate_rsi returns columns of raw tickers only.
C12_DerivedColumnsSkipped ==
    /\ HighLowReturned =>
           Names(returned) = Names(given)
               \cup {HighName(r) : r \in RawNames(given)}
               \cup {LowName(r) : r \in RawNames(given)}
    /\ RsiReturned => RsiNames \subseteq RawNames(given)

\* C14: for a column with one price at every date, calculate_rsi returns 50 at
\* every date, the first included, also when there is one date only.
C14_ConstantPriceGivesFifty ==
    RsiReturned =>
        \A c \in 1..Len(given) :
            (\A i \in 1..Len(given[c].values) :
                 ~IsNaN(given[c].values[i]) /\ given[c].values[i] = given[c].values[1])
            => \E d \in 1..Len(rsi_df.columns) :
                   /\ rsi_df.columns[d].name = given[c].name
                   /\ Len(rsi_df.columns[d].values) = Len(given[c].values)
                   /\ \A k \in 1..Len(rsi_df.columns[d].values) :
                          rsi_df.columns[d].values[k] = FromInt(50)

\* C15: every value calculate_rsi returns lies in [0, 100].
C15_RsiBounded ==
    RsiReturned =>
        \A d \in 1..Len(rsi_df.columns) :
            \A k \in 1..Len(rsi_df.columns[d].values) :
                LET v == rsi_df.columns[d].values[k]
                IN  /\ ~IsNaN(v)
                    /\ FLe(Zero, v)
                    /\ FLe(v, FromInt(100))

\* C16: calculate_rsi returns a column for exactly the columns that hold a
\* price at some date, each with one entry per date of the table it was
\* given, and a frame without rows and columns when no column holds a price.
C16_OriginalDateAxis ==
    RsiReturned =>
        /\ RsiNames = NamesWithPrice(given)
        /\ NamesWithPrice(given) # {} =>
               rsi_df.index = [k \in 1..Len(given[1].values) |-> k]
        /\ NamesWithPrice(given) = {} =>
               rsi_df = [index |-> <<>>, columns |-> <<>>]

\* C17: add_moving_average and add_52w_high_low return an extended copy: after
\* the call the caller's table has the columns and values it had before, and
\* the raw ticker columns of the returned table hold the values of the input.
C17_ReturnsExtendedCopy ==
    (MaReturned \/ HighLowReturned) =>
        /\ table = given
        /\ \A r \in RawNames(given) : ValuesOf(returned, r) = ValuesOf(given, r)

\* C26: add_moving_average called with a period <= 0 in its list raises and
\* leaves the caller's table with exactly the columns it had before the call,
\* wherever the period stands in the list and however many raw columns exist.
C26_InvalidPeriodFailsAtomically ==
    (/\ fn = "add_moving_average"
     /\ ipc # "start"
     /\ \E k \in 1..Len(ma_periods) : ma_periods[k] <= 0) =>
        /\ ipc = "raised"
        /\ table = given

(***************************************************************************)
(* The prediction models (src/simulation_lib.py).                          *)
(*                                                                         *)
(* LinearRegressionPredictor wraps a least-squares fit of the price on the *)
(* ordinal of the date.  The fit centres both on their means, solves the   *)
(* one-column least-squares problem (slope 0 when the dates do not vary)   *)
(* and derives the intercept; every step is floating-point arithmetic.     *)
(* Dates of year 1 keep the ordinals within the modelled significand, as   *)
(* the ordinals of real dates are within the 53 bits of the program.       *)
(***************************************************************************)
\* most rows of a training series
MaxTrain == 3

TrainDatePool == {<<1, 1, 1>>, <<1, 1, 2>>, <<1, 1, 3>>, <<1, 1, 4>>}
TrainPricePool == {1, 2, 3}
FutureDateLists == {<<<<1, 1, 5>>>>, <<<<1, 1, 6>>>>, <<<<1, 1, 5>>, <<1, 1, 6>>>>}

\* self.models of SimulationBackend, and a name it does not hold
ModelNames == {"Linear Regression"}
RequestedNames == ModelNames \cup {"ARIMA"}

\* the training series a caller can pass: up to MaxTrain rows [Date, Price],
\* the dates ascending and distinct, or all rows on one date
TrainingSets ==
    UNION { { s \in [1..n -> [Date : TrainDatePool, Price : TrainPricePool]] :
                \/ \A k \in 1..(n - 1) : DateLt(s[k].Date, s[k + 1].Date)
                \/ \A k \in 1..n : s[k].Date = s[1].Date } :
            n \in 0..MaxTrain }

\* LinearRegressionPredictor(): an estimator that is not fitted, std_dev = 0.0
NewPredictor ==
    [exists |-> TRUE, fitted |-> FALSE,
     coef |-> Zero, intercept |-> Zero, std_dev |-> Zero]

\* the sum of the first k entries, added from the left
RECURSIVE FSum(_, _)
FSum(vals, k) == IF k = 0 THEN Zero ELSE FAdd(FSum(vals, k - 1), vals[k])

\* np.mean of a non-empty array
Mean(vals) == FDiv(FSum(vals, Len(vals)), FromInt(Len(vals)))

\* LinearRegression().fit(x, y) for one feature
Fit(x, y) ==
    LET x_offset == Mean(x)
        y_offset == Mean(y)
        xc == [k \in 1..Len(x) |-> FSub(x[k], x_offset)]
        yc == [k \in 1..Len(y) |-> FSub(y[k], y_offset)]
        sxx == FSum([k \in 1..Len(x) |-> FMul(xc[k], xc[k])], Len(x))
        sxy == FSum([k \in 1..Len(x) |-> FMul(xc[k], yc[k])], Len(x))
        coef == IF sxx = Zero THEN Zero ELSE FDiv(sxy, sxx)
    IN  [coef |-> coef, intercept |-> FSub(y_offset, FMul(x_offset, coef))]

\* the prediction of an estimator that leaves its intercept out
ModelPredictNoIntercept(m, x) ==
    [k \in 1..Len(x) |-> FMul(x[k], m.coef)]

\* self.model.predict(dates_ord) of a fitted estimator
ModelPredict(m, x) ==
    [k \in 1..Len(x) |-> FAdd(FMul(x[k], m.coef), m.intercept)]

\* np.std(r): the root of the mean of the squared deviations from the mean
Std(r) ==
    LET mean == Mean(r)
    IN  FSqrt(Mean([k \in 1..Len(r) |->
                       FMul(FSub(r[k], mean), FSub(r[k], mean))]))

\* [d.toordinal() for d in dates] as the float column the estimator works on
DatesOrd(dates) == [k \in 1..Len(dates) |-> FromInt(ToOrdinal(dates[k]))]

\* train(dates, prices) on the model m for a series with at least one row:
\* the model after it
Train(m, s) ==
    LET dates_ord == DatesOrd([k \in 1..Len(s) |-> s[k].Date])
        prices == [k \in 1..Len(s) |-> FromInt(s[k].Price)]
        fit == Fit(dates_ord, prices)
        predictions == ModelPredict(fit, dates_ord)
        residuals == [k \in 1..Len(s) |-> FSub(prices[k], predictions[k])]
    IN  [m EXCEPT !.fitted = TRUE, !.coef = fit.coef,
                  !.intercept = fit.intercept, !.std_dev = Std(residuals)]

\* predict(future_dates) on a fitted model m
Predict(m, future_dates) ==
    LET predictions == ModelPredict(m, DatesOrd(future_dates))
        band == FMul(FromInt(2), m.std_dev)
    IN  [op |-> "predict", status |-> "returned", dates |-> future_dates,
         predictions |-> predictions,
         lower |-> [k \in 1..Len(predictions) |-> FSub(predictions[k], band)],
         upper |-> [k \in 1..Len(predictions) |-> FAdd(predictions[k], band)]]

Outcome(op, status) ==
    [op |-> op, status |-> status, dates |-> <<>>,
     predictions |-> <<>>, lower |-> <<>>, upper |-> <<>>]

PredictorInit ==
    /\ PredictorIdle
    /\ FetchIdle
    /\ PageIdle
    /\ IndicatorsIdle
    /\ wallet = NewWallet(0, 0, "None")
    /\ price_df = <<>>
    /\ df = <<>>
    /\ pc = "idle"
    /\ idx = 0
    /\ start_date = NoDate
    /\ next_contribution_date = NoDate
    /\ current_shares = Zero
    /\ total_invested = Zero
    /\ portfolio_values = <<>>
    /\ invested_capital_values = <<>>
    /\ result = <<>>
    /\ purchases = <<>>

\* get_model with one instance per name kept and handed out again
GetModelCached(name) ==
    /\ IF name \in ModelNames
       THEN /\ model' = IF model.exists THEN model ELSE NewPredictor
            /\ pcall' = Outcome("get_model", "returned")
            /\ UNCHANGED trained_on
       ELSE /\ pcall' = Outcome("get_model", "raised")
            /\ UNCHANGED <<model, trained_on>>
    /\ UNCHANGED <<wvars, ivars, fvars, gvars>>

\* model = backend.get_model(model_name): a new instance of the class held
\* under that name, ValueError for any other name
GetModel(name) ==
    /\ IF name \in ModelNames
       THEN /\ model' = NewPredictor
            /\ trained_on' = <<>>
            /\ pcall' = Outcome("get_model", "returned")
       ELSE /\ pcall' = Outcome("get_model", "raised")
            /\ UNCHANGED <<model, trained_on>>
    /\ UNCHANGED <<wvars, ivars, fvars, gvars>>

GetModelAny == \E name \in RequestedNames : GetModel(name)

\* model.train(dates, prices), once per instance as the callers do; fit
\* rejects a series without rows and leaves the estimator as it was
TrainModel(s) ==
    /\ model.exists
    /\ ~model.fitted
    /\ IF s = <<>>
       THEN /\ pcall' = Outcome("train", "raised")
            /\ UNCHANGED <<model, trained_on>>
       ELSE /\ model' = Train(model, s)
            /\ trained_on' = s
            /\ pcall' = Outcome("train", "returned")
    /\ UNCHANGED <<wvars, ivars, fvars, gvars>>

TrainModelAny ==
    /\ model.exists
    /\ ~model.fitted
    /\ \E s \in TrainingSets : TrainModel(s)

\* model.predict(future_dates): the estimator raises NotFittedError until a
\* fit has completed
PredictModel(future_dates) ==
    /\ model.exists
    /\ pcall' = IF model.fitted THEN Predict(model, future_dates)
                ELSE Outcome("predict", "raised")
    /\ UNCHANGED <<model, trained_on>>
    /\ UNCHANGED <<wvars, ivars, fvars, gvars>>

PredictModelAny ==
    /\ model.exists
    /\ \E future_dates \in FutureDateLists : PredictModel(future_dates)

PredictorNext == GetModelAny \/ TrainModelAny \/ PredictModelAny

SpecPredictor == PredictorInit /\ [][PredictorNext]_vars

(***************************************************************************)
(* Properties of the prediction models.                                    *)
(***************************************************************************)
\* the dates of a training series
DatesOf(s) == {s[k].Date : k \in 1..Len(s)}

\* the rows lie on one line over two or more distinct dates: the slope between
\* the first two rows is the slope between the first row and every row
ExactlyLinear(s) ==
    /\ Len(s) >= 2
    /\ Cardinality(DatesOf(s)) = Len(s)
    /\ \A k \in 1..Len(s) :
           (s[k].Price - s[1].Price) * (ToOrdinal(s[2].Date) - ToOrdinal(s[1].Date))
           = (s[2].Price - s[1].Price) * (ToOrdinal(s[k].Date) - ToOrdinal(s[1].Date))

\* the value at the date d of the line through the rows of s, as a float
LineAt(s, d) ==
    LET num == s[2].Price - s[1].Price
        den == ToOrdinal(s[2].Date) - ToOrdinal(s[1].Date)
    IN  Round(num * (ToOrdinal(d) - ToOrdinal(s[1].Date)) + s[1].Price * den, den, 0)

PredictReturned == pcall.op = "predict" /\ pcall.status = "returned"

\* C18 as stated: a model trained on an exactly linear series has residual
\* standard deviation 0; its predictions are the values of the line, and the
\* lower and the upper bound equal the prediction at every date.
C18_ExactLineAsStated ==
    (model.fitted /\ ExactlyLinear(trained_on)) =>
        /\ model.std_dev = Zero
        /\ PredictReturned =>
               \A k \in 1..Len(pcall.predictions) :
                   /\ pcall.lower[k] = pcall.predictions[k]
                   /\ pcall.upper[k] = pcall.predictions[k]

\* the float x is exactly the fraction n / d, d > 0
IsExactly(x, n, d) ==
    IF x[2] >= 0 THEN x[1] * Pow2(x[2]) * d = n
    ELSE x[1] * d = n * Pow2(-x[2])

\* the fit found the slope and the intercept of the line through the rows of s
FitIsExact(m, s) ==
    LET num == s[2].Price - s[1].Price
        den == ToOrdinal(s[2].Date) - ToOrdinal(s[1].Date)
    IN  /\ IsExactly(m.coef, num, den)
        /\ IsExactly(m.intercept, s[1].Price * den - num * ToOrdinal(s[1].Date), den)

\* C18: for a model trained on an exactly linear series, the residual standard
\* deviation is not negative, and it is 0 when the fit finds the slope and the
\* intercept of the line exactly (rounding can keep it from doing so); predict
\* returns lower = prediction - 2 * std_dev and upper = prediction + 2 * std_dev,
\* so lower <= prediction <= upper, all three equal when std_dev is 0; when
\* the fit is exact the predictions are the values of the line.
C18_ExactLine ==
    (model.fitted /\ ExactlyLinear(trained_on)) =>
        /\ FLe(Zero, model.std_dev)
        /\ FitIsExact(model, trained_on) => model.std_dev = Zero
        /\ PredictReturned =>
               \A k \in 1..Len(pcall.predictions) :
                   LET band == FMul(FromInt(2), model.std_dev)
                   IN  /\ pcall.lower[k] = FSub(pcall.predictions[k], band)
                       /\ pcall.upper[k] = FAdd(pcall.predictions[k], band)
                       /\ FLe(pcall.lower[k], pcall.predictions[k])
                       /\ FLe(pcall.predictions[k], pcall.upper[k])
                       /\ model.std_dev = Zero =>
                              /\ pcall.lower[k] = pcall.predictions[k]
                              /\ pcall.upper[k] = pcall.predictions[k]
                       /\ FitIsExact(model, trained_on) =>
                              pcall.predictions[k] = LineAt(trained_on, pcall.dates[k])

C18_Witness ==
    /\ PredictReturned
    /\ Len(trained_on) = 3
    /\ ExactlyLinear(trained_on)
    /\ trained_on[2].Price # trained_on[1].Price
    /\ FitIsExact(model, trained_on)
    /\ model.intercept # Zero
    /\ model.std_dev = Zero
    /\ Len(pcall.predictions) = 2
    /\ pcall.predictions[2] = LineAt(trained_on, pcall.dates[2])

\* C19: predict on a model that was never trained is rejected and returns no
\* result; predict returns a result only on a model on which a train has
\* completed; get_model hands out an instance that is not trained, whatever
\* was done with the instances handed out before.
C19_PredictNeedsTrain ==
    /\ pcall.op = "predict" =>
           /\ pcall.status = "returned" <=> model.fitted
           /\ pcall.status = "raised" <=> trained_on = <<>>
           /\ pcall.status = "raised" =>
                  pcall.predictions = <<>> /\ pcall.lower = <<>> /\ pcall.upper = <<>>
           /\ pcall.status = "returned" =>
                  /\ Len(pcall.predictions) >= 1
                  /\ Len(pcall.lower) = Len(pcall.predictions)
                  /\ Len(pcall.upper) = Len(pcall.predictions)
    /\ (pcall.op = "get_model" /\ pcall.status = "returned") =>
           model = NewPredictor /\ trained_on = <<>>
    /\ model.fitted <=> trained_on # <<>>

C19_Witness ==
    /\ pcall.op = "predict"
    /\ pcall.status = "raised"
    /\ model = NewPredictor

\* C20: train on a series with fewer than 2 distinct dates is rejected and
\* leaves the model untrained, so a later predict is rejected too: a trained
\* model has seen 2 distinct dates or more, and so has one that predicted.
C20_TrainNeedsTwoDates ==
    /\ model.fitted => Cardinality(DatesOf(trained_on)) >= 2
    /\ PredictReturned => Cardinality(DatesOf(trained_on)) >= 2

(***************************************************************************)
(* get_price_data (src/utils.py).                                          *)
(*                                                                         *)
(* yf.Ticker(symbol).history(start, end) raises, or returns a frame of     *)
(* daily bars indexed by timestamps in the time zone of the symbol's       *)
(* exchange, start included and end excluded; the frame has no rows for a  *)
(* symbol without bars in the range.  A timestamp is [date, tz].           *)
(***************************************************************************)
\* most tickers in one batch
MaxTickers == 2

\* most bars a symbol has
MaxBars == 3

FetchSymbols == <<"AAPL", "MSFT", "SAP.DE">>
TimeZones == {"America/New_York", "Europe/Berlin"}
ClosePool == {1, 3}

\* the lists of at most n daily bars on the dates D, oldest first
BarLists(D, n) ==
    { [k \in 1..Cardinality(S) |->
          [Date |-> Ascending(S, pr)[k].Date, Close |-> Ascending(S, pr)[k].Price]] :
        S \in {T \in SUBSET D : Cardinality(T) <= n}, pr \in [D -> ClosePool] }

\* what a symbol can have at the exchange: nothing to fetch (history raises),
\* or bars in the time zone of its exchange
Markets(D, n) ==
    { [kind |-> "raises", tz |-> "", bars |-> <<>>] }
    \cup { [kind |-> "frame", tz |-> tz, bars |-> b] :
               tz \in TimeZones, b \in BarLists(D, n) }

\* yf.Ticker(ticker).history(start=start_date, end=end_date), line 23
History(m, start, end) ==
    IF m.kind = "raises" THEN m
    ELSE LET InRange(b) == DateLe(start, b.Date) /\ DateLt(b.Date, end)
         IN  [m EXCEPT !.bars = SelectSeq(m.bars, InRange)]

\* lines 26-27: the Close column under the name Price, the index as the
\* column Date, and the column Ticker
FrameOf(ticker, hist) ==
    [k \in 1..Len(hist.bars) |->
        [Date |-> [date |-> hist.bars[k].Date, tz |-> hist.tz],
         Price |-> hist.bars[k].Close,
         Ticker |-> ticker]]

\* lines 20-31: the frames of the tickers from position k on; a ticker whose
\* fetch raises or has no rows is passed over
RECURSIVE FetchFrames(_, _, _, _, _)
FetchFrames(tickers, mkt, start, end, k) ==
    IF k > Len(tickers) THEN <<>>
    ELSE LET hist == History(mkt[tickers[k]], start, end)
         IN  IF hist.kind = "raises" \/ hist.bars = <<>>
             THEN FetchFrames(tickers, mkt, start, end, k + 1)
             ELSE <<FrameOf(tickers[k], hist)>>
                  \o FetchFrames(tickers, mkt, start, end, k + 1)

\* pd.concat(frames, ignore_index=True), line 36
RECURSIVE Concat(_)
Concat(frames) ==
    IF frames = <<>> THEN <<>> ELSE frames[1] \o Concat(Tail(frames))

\* the Date column of the concatenation holds timestamps of more than one
\* time zone: it has dtype object and line 37 cannot convert it
MixedTimeZones(rows) ==
    \E i, j \in 1..Len(rows) : rows[i].Date.tz # rows[j].Date.tz

\* pd.to_datetime(result['Date']).dt.date, line 37
DatesOnly(rows) == [k \in 1..Len(rows) |-> [rows[k] EXCEPT !.Date = rows[k].Date.date]]

\* get_price_data(tickers, start_date, end_date) read from the market mkt
GetPriceData(tickers, mkt, start, end) ==
    LET frames == FetchFrames(tickers, mkt, start, end, 1)
        all == Concat(frames)
    IN  IF frames = <<>>
        THEN [status |-> "returned", columns |-> <<"Date", "Ticker", "Price">>,
              rows |-> <<>>]
        ELSE IF MixedTimeZones(all)
        THEN [status |-> "raised", columns |-> <<>>, rows |-> <<>>]
        ELSE [status |-> "returned", columns |-> <<"Date", "Price", "Ticker">>,
              rows |-> DatesOnly(all)]

FetchDates == {<<1, 1, 2>>, <<1, 1, 3>>}

\* the date ranges asked for: one holds both dates, one the first only
FetchRanges ==
    { [start_date |-> <<1, 1, 1>>, end_date |-> <<1, 1, 4>>],
      [start_date |-> <<1, 1, 1>>, end_date |-> <<1, 1, 3>>] }

\* the batches a caller can pass: up to MaxTickers distinct symbols
Batches ==
    UNION { { b \in [1..n -> {FetchSymbols[k] : k \in 1..Len(FetchSymbols)}] :
                \A i, j \in 1..n : i # j => b[i] # b[j] } :
            n \in 0..MaxTickers }

\* the markets of the batch runs: a symbol raises, has no bars, or has the bars
\* of every date in one of the time zones
FetchMarkets ==
    { m \in Markets(FetchDates, MaxBars) :
        m.kind = "frame" =>
            /\ Len(m.bars) \in {0, Cardinality(FetchDates)}
            /\ m.bars = <<>> => m.tz = "America/New_York"
            /\ \A k \in 1..Len(m.bars) : m.bars[k].Close = 1 }

FetchInit ==
    /\ market \in [{FetchSymbols[k] : k \in 1..Len(FetchSymbols)} -> FetchMarkets]
    /\ request = NoRequest
    /\ price_data = NoPriceData
    /\ PageIdle
    /\ PredictorIdle
    /\ IndicatorsIdle
    /\ wallet = NewWallet(0, 0, "None")
    /\ price_df = <<>>
    /\ df = <<>>
    /\ pc = "idle"
    /\ idx = 0
    /\ start_date = NoDate
    /\ next_contribution_date = NoDate
    /\ current_shares = Zero
    /\ total_invested = Zero
    /\ portfolio_values = <<>>
    /\ invested_capital_values = <<>>
    /\ result = <<>>
    /\ purchases = <<>>

\* a caller calls get_price_data(tickers, start_date, end_date)
CallGetPriceData(tickers, start, end) ==
    /\ request' = [tickers |-> tickers, start_date |-> start, end_date |-> end]
    /\ price_data' = GetPriceData(tickers, market, start, end)
    /\ UNCHANGED market
    /\ UNCHANGED <<wvars, ivars, pvars, gvars>>

CallGetPriceDataAny ==
    \E tickers \in Batches, r \in FetchRanges :
        CallGetPriceData(tickers, r.start_date, r.end_date)

FetchNext == CallGetPriceDataAny

SpecFetch == FetchInit /\ [][FetchNext]_vars

(***************************************************************************)
(* Properties of get_price_data.                                           *)
(***************************************************************************)
\* the bars the symbol has in the requested range, as rows of the result
RowsExpected(ticker) ==
    LET m == market[ticker]
        InRange(b) == /\ DateLe(request.start_date, b.Date)
                      /\ DateLt(b.Date, request.end_date)
        bars == IF m.kind = "raises" THEN <<>> ELSE SelectSeq(m.bars, InRange)
    IN  [k \in 1..Len(bars) |->
            [Date |-> bars[k].Date, Price |-> bars[k].Close, Ticker |-> ticker]]

\* C23: get_price_data over a batch returns the rows of every ticker whose
\* fetch gave bars, ticker by ticker in batch order, and no row of a ticker
\* whose fetch raised or gave none, whatever the other tickers did; with no
\* data at all it returns a table without rows that has the columns Date,
\* Ticker and Price; no call raises.
C23_FailuresIsolated ==
    price_data.status # "none" =>
        /\ price_data.status = "returned"
        /\ {price_data.columns[k] : k \in 1..Len(price_data.columns)}
               = {"Date", "Ticker", "Price"}
        /\ price_data.rows =
               Concat([k \in 1..Len(request.tickers) |->
                          RowsExpected(request.tickers[k])])

(***************************************************************************)
(* The simulation page (src/pages/simulation.py).                          *)
(*                                                                         *)
(* Streamlit runs the script from the top whenever an input changes or the *)
(* button is pressed; nothing of a run outlives it.  Dates are taken in    *)
(* the first days of year 1, 0001-01-01 being a Monday.                    *)
(***************************************************************************)
PageTicker == "NVDA"

\* the dates the three date inputs deliver, and the days the script runs on
StartDates == {<<1, 1, 2>>, <<1, 1, 4>>}
EndDates == {<<1, 1, 3>>, <<1, 1, 4>>, <<1, 1, 5>>}
PredictionDates == {<<1, 1, 3>>, <<1, 1, 4>>, <<1, 1, 6>>, <<1, 1, 8>>}
Todays == {<<1, 1, 4>>, <<1, 1, 9>>}

\* the trading days the ticker can have bars on
PageBarDates == {<<1, 1, 1>>, <<1, 1, 2>>, <<1, 1, 3>>, <<1, 1, 4>>, <<1, 1, 5>>,
                 <<1, 1, 8>>, <<1, 1, 9>>}

CloseOn(d) == 1 + (d[3] % 3)

SidebarInputs ==
    { [ticker |-> PageTicker, start_date |-> s, end_date |-> e,
       prediction_date |-> p, initial_investment |-> 15,
       contribution_amount |-> 5, contribution_freq |-> "Monthly",
       model_name |-> "Linear Regression", uncertainty_pct |-> 95] :
        s \in StartDates, e \in EndDates, p \in PredictionDates }

\* what the ticker has at the exchange on the day td: nothing to fetch, or at
\* most MaxBars bars, none after td
PageMarkets(td) ==
    { [kind |-> "raises", tz |-> "", bars |-> <<>>] }
    \cup { [kind |-> "frame", tz |-> "America/New_York",
            bars |-> [k \in 1..Cardinality(S) |->
                        [Date |-> Ascending(S, [d \in S |-> CloseOn(d)])[k].Date,
                         Close |-> Ascending(S, [d \in S |-> CloseOn(d)])[k].Price]]] :
             S \in {T \in SUBSET {d \in PageBarDates : DateLe(d, td)} :
                        Cardinality(T) <= MaxBars} }

\* a validation that checks the start date only
DatesValidStartOnly(sb) == ~DateGe(sb.start_date, sb.end_date)

\* lines 39-46
DatesValid(sb) ==
    /\ ~DateGe(sb.start_date, sb.end_date)
    /\ ~DateGe(sb.end_date, sb.prediction_date)

MaxDate(a, b) == IF DateLt(a, b) THEN b ELSE a

\* pd.to_datetime(df_all['Date']), line 84: dates become timestamps at midnight
ToDatetime(rows) ==
    [k \in 1..Len(rows) |-> [rows[k] EXCEPT !.Date = [date |-> rows[k].Date, tz |-> ""]]]

\* line 90
MaskTrain(row, end_date) == DateLe(row.Date.date, end_date)

\* a test mask that takes the rows of the end date too
MaskTestFromCutoff(row, end_date, prediction_end_date) ==
    /\ DateGe(row.Date.date, end_date)
    /\ DateLe(row.Date.date, prediction_end_date)

\* line 94
MaskTest(row, end_date, prediction_end_date) ==
    /\ DateLt(end_date, row.Date.date)
    /\ DateLe(row.Date.date, prediction_end_date)

\* date.weekday(): Monday is 0
Weekday(d) == (ToOrdinal(d) + 6) % 7

\* pd.date_range(start, end, freq='B'): the days Monday to Friday from start to
\* end, as timestamps
RECURSIVE BusinessDays(_, _)
BusinessDays(start, end) ==
    IF DateLt(end, start) THEN <<>>
    ELSE (IF Weekday(start) < 5 THEN <<[date |-> start, tz |-> ""]>> ELSE <<>>)
         \o BusinessDays(AddDays(start, 1), end)

\* def predict(self, future_dates), and the call of line 121:
\* model.predict(full_future_dates, confidence_interval=...)
PredictParameters == <<"future_dates">>
PagePredictCall == [positional |-> 1, keywords |-> {"confidence_interval"}]

\* Python binds the arguments of a call: TypeError for a keyword that is no
\* parameter left over by the positional arguments
CallAccepted(params, call) ==
    /\ call.positional <= Len(params)
    /\ \A kw \in call.keywords :
           \E i \in (call.positional + 1)..Len(params) : params[i] = kw

\* the rows as train(dates, prices) reads them: d.toordinal() sees the date
TrainRows(rows) ==
    [k \in 1..Len(rows) |-> [Date |-> rows[k].Date.date, Price |-> rows[k].Price]]

PageInit ==
    /\ sidebar \in SidebarInputs
    /\ today \in Todays
    /\ market \in [{PageTicker} -> PageMarkets(today)]
    /\ request = NoRequest
    /\ price_data = NoPriceData
    /\ PageCleared
    /\ PredictorIdle
    /\ IndicatorsIdle
    /\ wallet = NewWallet(0, 0, "None")
    /\ price_df = <<>>
    /\ df = <<>>
    /\ pc = "idle"
    /\ idx = 0
    /\ start_date = NoDate
    /\ next_contribution_date = NoDate
    /\ current_shares = Zero
    /\ total_invested = Zero
    /\ portfolio_values = <<>>
    /\ invested_capital_values = <<>>
    /\ result = <<>>
    /\ purchases = <<>>

\* the user changes an input: the script runs again, the button is not
\* pressed, and what the last run computed and showed is gone
ChangeInputs ==
    /\ \E sb \in SidebarInputs : sidebar' = sb
    /\ ppc' = "form"
    /\ page_error' = ""
    /\ steps' = <<>>
    /\ df_all' = <<>>
    /\ df_train' = <<>>
    /\ df_test' = <<>>
    /\ full_future_dates' = <<>>
    /\ scenarios' = <<>>
    /\ request' = NoRequest
    /\ price_data' = NoPriceData
    /\ model' = NoModel
    /\ trained_on' = <<>>
    /\ pcall' = NoCall
    /\ UNCHANGED <<today, market>>
    /\ UNCHANGED <<wvars, ivars>>

\* the run stops with the error message msg after the steps done
PageStops(status, msg, done, all, train, test, future) ==
    /\ ppc' = status
    /\ page_error' = msg
    /\ steps' = done
    /\ df_all' = all
    /\ df_train' = train
    /\ df_test' = test
    /\ full_future_dates' = future
    /\ scenarios' = <<>>

\* Run Simulation is pressed: lines 60-143
PressRunSimulation ==
    /\ UNCHANGED <<sidebar, today, market>>
    /\ UNCHANGED <<wvars, ivars>>
    /\ IF ~DatesValid(sidebar)
       THEN /\ PageStops("error", "dates", <<>>, <<>>, <<>>, <<>>, <<>>)
            /\ request' = NoRequest
            /\ price_data' = NoPriceData
            /\ model' = NoModel
            /\ trained_on' = <<>>
            /\ pcall' = NoCall
       ELSE
         LET prediction_end_date == sidebar.prediction_date
             fetch_end_date == MaxDate(prediction_end_date, today)
             fetched == GetPriceData(<<sidebar.ticker>>, market, sidebar.start_date,
                                     AddDays(fetch_end_date, 5))
             all == ToDatetime(fetched.rows)
             InTrain(row) == MaskTrain(row, sidebar.end_date)
             InTest(row) == MaskTest(row, sidebar.end_date, prediction_end_date)
             train == SelectSeq(all, InTrain)
             test == SelectSeq(all, InTest)
             future == BusinessDays(AddDays(sidebar.end_date, 1), prediction_end_date)
             trained == Train(NewPredictor, TrainRows(train))
         IN  /\ request' = [tickers |-> <<sidebar.ticker>>,
                            start_date |-> sidebar.start_date,
                            end_date |-> AddDays(fetch_end_date, 5)]
             /\ price_data' = fetched
             /\ IF fetched.status = "raised"
                THEN /\ PageStops("raised", "get_price_data", <<>>,
                                  <<>>, <<>>, <<>>, <<>>)
                     /\ model' = NoModel
                     /\ trained_on' = <<>>
                     /\ pcall' = NoCall
                ELSE IF fetched.rows = <<>>
                THEN /\ PageStops("error", "no data", <<"fetch">>,
                                  <<>>, <<>>, <<>>, <<>>)
                     /\ model' = NoModel
                     /\ trained_on' = <<>>
                     /\ pcall' = NoCall
                ELSE IF train = <<>>
                THEN /\ PageStops("error", "no training data", <<"fetch">>,
                                  all, train, test, <<>>)
                     /\ model' = NoModel
                     /\ trained_on' = <<>>
                     /\ pcall' = NoCall
                ELSE /\ model' = trained
                     /\ trained_on' = TrainRows(train)
                     /\ IF ~CallAccepted(PredictParameters, PagePredictCall)
                        THEN /\ pcall' = Outcome("predict", "raised")
                             /\ PageStops("raised", "TypeError", <<"fetch", "train">>,
                                          all, train, test, future)
                        ELSE IF future = <<>>
                        THEN /\ pcall' = Outcome("predict", "raised")
                             /\ PageStops("raised", "ValueError", <<"fetch", "train">>,
                                          all, train, test, future)
                        ELSE LET pred == Predict(trained,
                                           [k \in 1..Len(future) |-> future[k].date])
                                 df_pred_renamed ==
                                     [k \in 1..Len(future) |->
                                         [Date |-> future[k],
                                          Price |-> pred.predictions[k]]]
                                 \* the training rows are before the test rows
                                 \* and before the future dates, and no date
                                 \* comes twice: sorting changes nothing
                                 df_history_combined == train \o test
                                 df_scenario_predicted ==
                                     [k \in 1..Len(train) |->
                                         [Date |-> train[k].Date,
                                          Price |-> train[k].Price]]
                                     \o df_pred_renamed
                             IN  /\ pcall' = pred
                                 /\ ppc' = "done"
                                 /\ page_error' = ""
                                 /\ steps' = <<"fetch", "train", "predict",
                                               "wallet actual", "wallet predicted">>
                                 /\ df_all' = all
                                 /\ df_train' = train
                                 /\ df_test' = test
                                 /\ full_future_dates' = future
                                 /\ scenarios' = <<df_history_combined,
                                                   df_scenario_predicted>>

PageNext == ChangeInputs \/ PressRunSimulation

SpecPage == PageInit /\ [][PageNext]_vars

(***************************************************************************)
(* Properties of the simulation page.                                      *)
(***************************************************************************)
\* the button was pressed in this run of the script
Pressed == ppc # "form"

DateOfRow(row) == row.Date.date

InTable(row, t) == \E j \in 1..Len(t) : t[j] = row

\* C21: when the prediction date is not strictly after the end date, or the
\* start date is not strictly before the end date, a press of Run Simulation
\* ends with the date error and has fetched no prices, trained no model,
\* predicted nothing and run no wallet.
C21_InvalidDatesRejected ==
    (/\ Pressed
     /\ \/ ~DateLt(sidebar.end_date, sidebar.prediction_date)
        \/ ~DateLt(sidebar.start_date, sidebar.end_date)) =>
        /\ ppc = "error"
        /\ page_error = "dates"
        /\ steps = <<>>
        /\ request = NoRequest
        /\ price_data = NoPriceData
        /\ model = NoModel
        /\ trained_on = <<>>
        /\ pcall = NoCall
        /\ scenarios = <<>>

\* a rejected press with a start date before the end date and a prediction
\* date not after it, for a ticker that has bars from the start date on
C21_Witness ==
    /\ ppc = "error"
    /\ page_error = "dates"
    /\ DateLt(sidebar.start_date, sidebar.end_date)
    /\ DateLe(sidebar.prediction_date, sidebar.end_date)
    /\ market[sidebar.ticker].kind = "frame"
    /\ \E k \in 1..Len(market[sidebar.ticker].bars) :
           DateLe(sidebar.start_date, market[sidebar.ticker].bars[k].Date)

\* C22: the split partitions the fetched rows by date: the training set is the
\* rows with date <= end date, the test set the rows with end date < date <=
\* prediction date, both in the order of the fetched rows; they share no row,
\* every training date is before every test date, the rows after the
\* prediction date are in neither, and the test set is empty exactly when no
\* fetched row lies in that interval.
C22_SplitPartitionsByDate ==
    (Pressed /\ df_all # <<>>) =>
        LET cutoff == sidebar.end_date
            horizon == sidebar.prediction_date
            Between(row) == /\ DateLt(cutoff, DateOfRow(row))
                            /\ DateLe(DateOfRow(row), horizon)
        IN  /\ df_all = ToDatetime(price_data.rows)
            /\ \A i \in 1..Len(df_all) :
                   /\ InTable(df_all[i], df_train) <=> DateLe(DateOfRow(df_all[i]), cutoff)
                   /\ InTable(df_all[i], df_test) <=> Between(df_all[i])
                   /\ DateLt(horizon, DateOfRow(df_all[i])) =>
                          /\ ~InTable(df_all[i], df_train)
                          /\ ~InTable(df_all[i], df_test)
            /\ \A j \in 1..Len(df_train) : InTable(df_train[j], df_all)
            /\ \A j \in 1..Len(df_test) : InTable(df_test[j], df_all)
            /\ \A j, k \in 1..Len(df_train) :
                   j < k => DateLt(DateOfRow(df_train[j]), DateOfRow(df_train[k]))
            /\ \A j, k \in 1..Len(df_test) :
                   j < k => DateLt(DateOfRow(df_test[j]), DateOfRow(df_test[k]))
            /\ \A j \in 1..Len(df_train) : \A k \in 1..Len(df_test) :
                   /\ df_train[j] # df_test[k]
                   /\ DateLt(DateOfRow(df_train[j]), DateOfRow(df_test[k]))
            /\ df_test = <<>> <=> ~\E i \in 1..Len(df_all) : Between(df_all[i])

\* a split with a training row on the end date, a test row on the prediction
\* date and a fetched row after it
C22_Witness ==
    /\ Pressed
    /\ \E j \in 1..Len(df_train) : DateOfRow(df_train[j]) = sidebar.end_date
    /\ \E j \in 1..Len(df_test) : DateOfRow(df_test[j]) = sidebar.prediction_date
    /\ \E i \in 1..Len(df_all) : DateLt(sidebar.prediction_date, DateOfRow(df_all[i]))

\* C24: a press of Run Simulation with valid dates, fetched rows and training
\* rows completes: it trains the model, predicts over the forward dates (the
\* predict call with the confidence argument is accepted and returns point,
\* lower and upper values) and runs the wallet on the actual and on the
\* predicted scenario, in that order.
C24_RunCompletes ==
    (/\ Pressed
     /\ DateLt(sidebar.start_date, sidebar.end_date)
     /\ DateLt(sidebar.end_date, sidebar.prediction_date)
     /\ price_data.rows # <<>>
     /\ df_train # <<>>) =>
        /\ ppc = "done"
        /\ steps = <<"fetch", "train", "predict", "wallet actual", "wallet predicted">>
        /\ model.fitted
        /\ pcall.op = "predict"
        /\ pcall.status = "returned"
        /\ Len(pcall.predictions) = Len(full_future_dates)
        /\ Len(pcall.lower) = Len(full_future_dates)
        /\ Len(pcall.upper) = Len(full_future_dates)
        /\ Len(scenarios) = 2

====
